---- MODULE Spec2Model ----
(***************************************************************************)
(* State-machine model of the B3 batch pipeline: the Glue ETL job          *)
(* (src/glue/etl_job.py, main() and the stage functions it calls), the     *)
(* upload of the raw files (src/scripts/upload_to_s3.py), the Lambda       *)
(* that starts the job (src/lambda/trigger_glue_job.py) and the removal    *)
(* of the catalog table by src/scripts/deploy_aws.py --cleanup.            *)
(*                                                                         *)
(* Encoding of column values.  A Spark column value is either SQL NULL or  *)
(* a number.  NULL is the empty tuple <<>>.  A DOUBLE (the prices and the  *)
(* dividends, which the extractor writes as Python floats) is an IEEE-754  *)
(* binary64 number <<s, hi, lo, e>>, of value                              *)
(* (-1)^s * (hi * 2^27 + lo) * 2^e with the mantissa hi * 2^27 + lo in     *)
(* 2^52 .. 2^53 - 1, or <<s, 0, 0, 0>> for a zero; every operation rounds  *)
(* its result to the nearest double, ties to even.  The values of the      *)
(* model stay far from the ends of the exponent range: infinities, NaN and *)
(* subnormal numbers do not occur.  A BIGINT (the volume, a Python int) is *)
(* the 1-tuple <<n>>.  A string of a nullable column is the 1-tuple <<s>>. *)
(* SQL booleans are "true", "false" and "null".  A calendar date is the    *)
(* day number d of January 2024, i.e. the date 2024-01-d; ticker and data  *)
(* are never NULL.                                                         *)
(*                                                                         *)
(* A DataFrame is modelled by its rows, computed when the stage that       *)
(* builds it runs: a sequence where the order of the rows is the order of  *)
(* ingestion (raw_df, renamed_df), a set after the aggregation, whose rows *)
(* have distinct keys.  The engine aggregates the rows of every input      *)
(* partition apart and merges the partial buffers: how it splits the rows  *)
(* into partitions, the order of the rows in a partition and the order in  *)
(* which the buffers are merged are not fixed by the code, and are a       *)
(* nondeterministic choice of every evaluation of calculate_aggregations.  *)
(* A DataFrame is a plan: the job that writes with the catalog sink        *)
(* evaluates final_df again, with a choice and a current_timestamp of its  *)
(* own.                                                                    *)
(***************************************************************************)
EXTENDS Integers, Sequences, FiniteSets, TLC

VARIABLES
    pc,             \* position of main(): the stage that runs next
    store,          \* the raw bucket: what INPUT_PATH and RAW_PATH hold
    raw_df,         \* main's local raw_df: a sequence of rows (source column names)
    renamed_df,     \* main's local renamed_df: a sequence of rows (canonical names)
    agg_df,         \* main's local agg_df: a set of rows, one per group
    metrics_df,     \* main's local metrics_df
    partitioned_df, \* main's local partitioned_df
    final_df,       \* main's local final_df
    dest,           \* objects under OUTPUT_PATH: a set of [writer, row]
    catalog,        \* whether table refined_b3_data is registered in the catalog
    outcome,        \* how main ended: "none", "success" or "failed"
    clock,          \* the number of the run, which gives the times of its jobs
    todo,           \* rename_columns: the entries of column_mapping not yet visited
    last_run,       \* when this run is compared with the run before: the
                    \* rows that run read, what OUTPUT_PATH held at its end
                    \* (which is what this run started from) and its outcome
    pending,        \* upload_directory: the *.parquet files not yet visited
    attempts,       \* per file of the local directory, the calls of upload_file
    uploaded,       \* the keys upload_to_s3 has put in the bucket
    success_count,  \* upload_directory's local success_count
    fail_count,     \* upload_directory's local fail_count
    upload_pc,      \* upload_to_s3.main: "loop", "verify", "list", then
                    \* "return 0", "return 1" or the call that raised
    event,          \* lambda_handler: the records of the event it was invoked with
    records,        \* lambda_handler: the records after the one handled last
    handler,        \* lambda_handler: "running", "200" (returned) or "raised"
    requests,       \* the start_job_run calls of this invocation, with their results
    job_runs        \* the runs of the Glue job start_job_run has started, each
                    \* with its arguments

upload_vars ==
    <<pending, attempts, uploaded, success_count, fail_count, upload_pc>>

trigger_vars == <<event, records, handler, requests, job_runs>>

etl_vars == <<pc, store, raw_df, renamed_df, agg_df, metrics_df,
              partitioned_df, final_df, dest, catalog, outcome, clock, todo,
              last_run>>

vars == <<pc, store, raw_df, renamed_df, agg_df, metrics_df, partitioned_df,
          final_df, dest, catalog, outcome, clock, todo, last_run,
          upload_vars, trigger_vars>>

-----------------------------------------------------------------------------
(* Bounds of the model *)

\* Largest number of raw rows of an input of the aggregation stage.
MaxRawRows == 3
\* Dates of the window-metrics inputs are the days 1..MaxDate.
MaxDate == 8
\* Largest number of raw rows of an input object of a whole run.
MaxRunRows == 2
\* Number of runs of the job in one behaviour.
MaxRuns == 2
\* Largest number of columns of an input frame of rename_columns.
MaxFields == 2
\* Largest number of *.parquet files of the local directory of an upload.
MaxFiles == 3
\* Largest number of records of the event of a Lambda invocation.
MaxRecords == 2
\* Largest number of runs of the Glue job at which another invocation of the
\* Lambda still starts one.
MaxJobRuns == 2

Tickers == {"A", "B"}
\* Keys, prices and volumes the raw rows of the aggregation inputs are drawn
\* from.  A price level k is the price 10.80 * k: 10.80 and 21.60.
AggKeys == {<<"A", 1>>, <<"A", 2>>, <<"B", 1>>}
Prices == {1, 2}
Volumes == {1, 2}

-----------------------------------------------------------------------------
(* SQL values and arithmetic *)

NULL == <<>>

IsNull(x) == x = NULL

Abs(n) == IF n < 0 THEN -n ELSE n

\* The powers of two that fit a machine word of the model checker.
Pow2 == [k \in 0..30 |-> 2^k]

\* The mantissa of a double is hi * 2^27 + lo.
LoBase == 2^27
\* hi of a normalized mantissa lies in HiMin .. HiLimit - 1.
HiMin == 2^25
HiLimit == 2^26
\* An extended mantissa <<h, l>> is h * 2^30 + l: the mantissa followed by
\* three more bits (guard, round and sticky).
ExtBase == 2^30
\* The number of bits of a normalized extended mantissa: the 53 of a
\* mantissa and the three that follow.
ExtBits == 53 + 3
\* The product of two mantissas is computed in pieces of 14 bits.
LimbBase == 2^14

\* The number of bits of n, 0 <= n < 2^30, which lies in lo..hi.
RECURSIVE BitsBetween(_, _, _)
BitsBetween(n, lo, hi) ==
    IF lo = hi THEN lo
    ELSE LET mid == (lo + hi) \div 2
         IN  IF n < Pow2[mid] THEN BitsBetween(n, lo, mid)
             ELSE BitsBetween(n, mid + 1, hi)

\* The number of bits of n, 0 <= n < 2^30.
Bits(n) == BitsBetween(n, 0, 30)

ExtLen(E) == IF E[1] > 0 THEN 30 + Bits(E[1]) ELSE Bits(E[2])

\* E shifted right by d bits; the bits shifted out are kept in the sticky
\* bit, the lowest bit of the result.
ShiftRightSticky(E, d) ==
    IF d = 0 THEN E
    ELSE IF d >= ExtBits
    THEN <<0, IF E[1] = 0 /\ E[2] = 0 THEN 0 ELSE 1>>
    ELSE IF d >= 30
    THEN LET p == Pow2[d - 30]
             kept == E[1] \div p
             lost == E[1] % p # 0 \/ E[2] # 0
         IN  <<0, IF lost /\ kept % 2 = 0 THEN kept + 1 ELSE kept>>
    ELSE LET p == Pow2[d]
             low == (E[1] % p) * Pow2[30 - d] + E[2] \div p
             lost == E[2] % p # 0
         IN  <<E[1] \div p, IF lost /\ low % 2 = 0 THEN low + 1 ELSE low>>

\* E shifted left by k bits (E * 2^k has at most ExtBits bits).
ShiftLeft(E, k) ==
    IF k = 0 THEN E
    ELSE IF k >= 30 THEN <<E[2] * Pow2[k - 30], 0>>
    ELSE LET q == Pow2[30 - k]
         IN  <<E[1] * Pow2[k] + E[2] \div q, (E[2] % q) * Pow2[k]>>

ExtAdd(E, F) ==
    LET l == E[2] + F[2]
    IN  <<E[1] + F[1] + l \div ExtBase, l % ExtBase>>

\* E - F, for E >= F.
ExtSub(E, F) ==
    IF E[2] >= F[2] THEN <<E[1] - F[1], E[2] - F[2]>>
    ELSE <<E[1] - F[1] - 1, E[2] + (ExtBase - F[2])>>

\* +0.0 and -0.0.
SignedZero(s) == <<s, 0, 0, 0>>

IsZero(x) == x[2] = 0

\* Round to nearest, ties to even: the double nearest to (-1)^s * E * 2^e,
\* for an extended mantissa E of ExtBits bits.
RoundExt(s, E, e) ==
    LET g == E[2] % 8
        lo == E[2] \div 8
        up == g > 4 \/ (g = 4 /\ lo % 2 = 1)
    IN  IF ~up THEN <<s, E[1], lo, e + 3>>
        ELSE IF lo + 1 < LoBase THEN <<s, E[1], lo + 1, e + 3>>
        ELSE IF E[1] + 1 < HiLimit THEN <<s, E[1] + 1, 0, e + 3>>
        ELSE <<s, HiMin, 0, e + 4>>

\* The double nearest to (-1)^s * E * 2^e, for E of at most ExtBits + 1 bits
\* (of fewer than ExtBits bits only where E is exact).
NormalizeRound(s, E, e) ==
    LET n == ExtLen(E)
    IN  IF n = 0 THEN SignedZero(0)
        ELSE IF n > ExtBits
        THEN RoundExt(s, ShiftRightSticky(E, n - ExtBits), e + (n - ExtBits))
        ELSE RoundExt(s, ShiftLeft(E, ExtBits - n), e - (ExtBits - n))

\* The extended mantissa of a double.
Ext(x) == <<x[2], x[3] * 8>>

\* |x| < |y| for doubles other than zero.
MagLt(x, y) ==
    \/ x[4] < y[4]
    \/ x[4] = y[4] /\ x[2] < y[2]
    \/ x[4] = y[4] /\ x[2] = y[2] /\ x[3] < y[3]

\* x + y for doubles other than zero, |x| >= |y|.
AddOrdered(x, y) ==
    LET F == ShiftRightSticky(Ext(y), x[4] - y[4])
    IN  NormalizeRound(x[1],
                       IF x[1] = y[1] THEN ExtAdd(Ext(x), F)
                       ELSE ExtSub(Ext(x), F),
                       x[4] - 3)

\* The sum of two doubles.
AddDouble(x, y) ==
    IF IsZero(x) /\ IsZero(y)
    THEN SignedZero(IF x[1] = 1 /\ y[1] = 1 THEN 1 ELSE 0)
    ELSE IF IsZero(x) THEN y
    ELSE IF IsZero(y) THEN x
    ELSE AddOrdered(IF MagLt(x, y) THEN y ELSE x, IF MagLt(x, y) THEN x ELSE y)

Negate(x) == <<1 - x[1], x[2], x[3], x[4]>>

\* The four pieces of 14 bits of a mantissa, lowest first.
Limbs(x) ==
    <<x[3] % LimbBase, (x[3] \div LimbBase) + (x[2] % 2) * Pow2[13],
      (x[2] \div 2) % LimbBase, x[2] \div (2 * LimbBase)>>

\* Column k of the product of the pieces a and b: the sum of a[i] * b[j]
\* over the pieces with (i - 1) + (j - 1) = k.
Column(a, b, k) ==
    LET Term(i) == IF k + 2 - i \in 1..4 THEN a[i] * b[k + 2 - i] ELSE 0
    IN  Term(1) + Term(2) + Term(3) + Term(4)

\* The pieces from column k on of the product of the pieces a and b, lowest
\* first, given the carry of the columns below k.
RECURSIVE ProductFrom(_, _, _, _)
ProductFrom(a, b, k, carry) ==
    LET t == Column(a, b, k) + carry
    IN  IF k = 6 THEN <<t % LimbBase, t \div LimbBase>>
        ELSE <<t % LimbBase>> \o ProductFrom(a, b, k + 1, t \div LimbBase)

\* The eight pieces of 14 bits of the product of two mantissas given by
\* their pieces, lowest first.
ProductLimbs(a, b) == ProductFrom(a, b, 0, 0)

\* The double nearest to (-1)^s * p * 2^e, for the eight pieces p of the
\* product of two mantissas.
ProductRound(s, p, e) ==
    LET \* the product has 105 or 106 bits: its highest ExtBits bits start
        \* at bit 42 + k
        k == IF p[8] >= Pow2[7] THEN 8 ELSE 7
        l == p[4] \div Pow2[k] + p[5] * Pow2[14 - k]
               + (p[6] % Pow2[2 + k]) * Pow2[28 - k]
        h == p[6] \div Pow2[2 + k] + p[7] * Pow2[12 - k] + p[8] * Pow2[26 - k]
        lost == p[1] # 0 \/ p[2] # 0 \/ p[3] # 0 \/ p[4] % Pow2[k] # 0
    IN  RoundExt(s, <<h, IF lost /\ l % 2 = 0 THEN l + 1 ELSE l>>, e + 42 + k)

\* The product of two doubles.
MulDouble(x, y) ==
    IF IsZero(x) \/ IsZero(y) THEN SignedZero(IF x[1] = y[1] THEN 0 ELSE 1)
    ELSE ProductRound(IF x[1] = y[1] THEN 0 ELSE 1,
                      ProductLimbs(Limbs(x), Limbs(y)), x[4] + y[4])

\* The five pieces of 14 bits of an extended mantissa, lowest first.
ExtLimbs(E) ==
    <<E[2] % LimbBase, (E[2] \div LimbBase) % LimbBase,
      E[2] \div (LimbBase * LimbBase) + (E[1] % Pow2[12]) * 4,
      (E[1] \div Pow2[12]) % LimbBase, E[1] \div Pow2[26]>>

\* P <= R, for numbers of five pieces.
LimbLe(P, R) ==
    LET ph == P[5] * LimbBase + P[4]
        rh == R[5] * LimbBase + R[4]
        pm == P[3] * LimbBase + P[2]
        rm == R[3] * LimbBase + R[2]
    IN  ph < rh \/ (ph = rh /\ (pm < rm \/ (pm = rm /\ P[1] <= R[1])))

\* R - P, for numbers of five pieces with P <= R.
LimbSub(R, P) ==
    LET t1 == R[1] - P[1]
        t2 == R[2] - P[2] - (IF t1 < 0 THEN 1 ELSE 0)
        t3 == R[3] - P[3] - (IF t2 < 0 THEN 1 ELSE 0)
        t4 == R[4] - P[4] - (IF t3 < 0 THEN 1 ELSE 0)
        t5 == R[5] - P[5] - (IF t4 < 0 THEN 1 ELSE 0)
        Piece(t) == IF t < 0 THEN t + LimbBase ELSE t
    IN  <<Piece(t1), Piece(t2), Piece(t3), Piece(t4), Piece(t5)>>

\* D * q, for D of four pieces (D[5] = 0) and one piece q.
LimbMul(D, q) ==
    LET t1 == D[1] * q
        t2 == D[2] * q + t1 \div LimbBase
        t3 == D[3] * q + t2 \div LimbBase
        t4 == D[4] * q + t3 \div LimbBase
    IN  <<t1 % LimbBase, t2 % LimbBase, t3 % LimbBase, t4 % LimbBase,
          t4 \div LimbBase>>

\* One step of the long division by D (four pieces, the highest at least
\* 2^13) of a remainder R < D: the next piece q of the quotient and the
\* next remainder, <<q, R * 2^14 - q * D>>.  The quotient of the two
\* highest pieces of R * 2^14 by the highest of D is q, q + 1 or q + 2.
DivStep(R, D) ==
    LET S == <<0, R[1], R[2], R[3], R[4]>>
        e == (S[5] * LimbBase + S[4]) \div D[4]
        g == IF e >= LimbBase THEN LimbBase - 1 ELSE e
        q == IF LimbLe(LimbMul(D, g), S) THEN g
             ELSE IF LimbLe(LimbMul(D, g - 1), S) THEN g - 1
             ELSE g - 2
    IN  <<q, LimbSub(S, LimbMul(D, q))>>

\* The next n pieces of the quotient of the long division by D of a
\* remainder R < D, highest first, and after them the remainder that is
\* left.
RECURSIVE LongDivision(_, _, _)
LongDivision(R, D, n) ==
    IF n = 0 THEN <<R>>
    ELSE LET step == DivStep(R, D)
         IN  <<step[1]>> \o LongDivision(step[2], D, n - 1)

\* The double nearest to (-1)^s * (2^56 + Q) * 2^e, for the four pieces
\* Q[1] to Q[4] of a quotient, highest first, and the remainder Q[5]: the
\* integer part of N * 2^56 / D has 57 bits, and its lowest bit is made to
\* tell whether a remainder is left.
QuotientRound(s, Q, e) ==
    LET l == Q[4] + Q[3] * LimbBase + (Q[2] % 4) * Pow2[28]
        h == Q[2] \div 4 + Q[1] * Pow2[12] + Pow2[26]
        sticky == Q[5] # <<0, 0, 0, 0, 0>>
    IN  NormalizeRound(s, <<h, IF sticky /\ l % 2 = 0 THEN l + 1 ELSE l>>, e)

\* The quotient of two doubles, the divisor other than zero.
DivDouble(x, y) ==
    LET s == IF x[1] = y[1] THEN 0 ELSE 1
        less == x[2] < y[2] \/ (x[2] = y[2] /\ x[3] < y[3])
        D == ExtLimbs(Ext(y))
        \* N / D lies in [1, 2) after the dividend's mantissa is doubled
        \* where it is the smaller
        N == ExtLimbs(IF less THEN ExtAdd(Ext(x), Ext(x)) ELSE Ext(x))
    IN  IF IsZero(x) THEN SignedZero(s)
        ELSE QuotientRound(s, LongDivision(LimbSub(N, D), D, 4),
                           x[4] - y[4] - ExtBits - (IF less THEN 1 ELSE 0))

\* The double of the integer n (an INT or BIGINT cast to DOUBLE), |n| < 2^30.
Num(n) == IF n = 0 THEN SignedZero(0)
          ELSE NormalizeRound(IF n < 0 THEN 1 ELSE 0, <<0, Abs(n)>>, 0)

\* The double nearest to n/d: what a decimal literal or round(x, 2) gives.
Rat(n, d) == DivDouble(Num(n), Num(d))

\* The price of c cents, as the extractor writes it: round(x, 2) is the
\* double nearest to the decimal number.
Cents(c) == Rat(c, 100)

\* The prices of the levels 1 to 4: 10.80, 21.60, 32.40 and 43.20.
PriceTable == [k \in 1..4 |-> Cents(1080 * k)]

\* The price of level k.
Price(k) == PriceTable[k]

\* A BIGINT value.
Long(n) == <<n>>

IsLong(x) == Len(x) = 1

Str(s) == <<s>>

\* Spark SQL arithmetic: NULL if an operand is NULL; x / 0 is NULL.
Add(x, y) == IF IsNull(x) \/ IsNull(y) THEN NULL ELSE AddDouble(x, y)

Sub(x, y) == IF IsNull(x) \/ IsNull(y) THEN NULL ELSE AddDouble(x, Negate(y))

Mul(x, y) == IF IsNull(x) \/ IsNull(y) THEN NULL ELSE MulDouble(x, y)

Div(x, y) == IF IsNull(x) \/ IsNull(y) THEN NULL
             ELSE IF IsZero(y) THEN NULL
             ELSE DivDouble(x, y)

\* x < y and x <= y on doubles (not NULL); -0.0 and 0.0 are equal.
Lt(x, y) ==
    IF IsZero(x) THEN ~IsZero(y) /\ y[1] = 0
    ELSE IF IsZero(y) THEN x[1] = 1
    ELSE IF x[1] # y[1] THEN x[1] = 1
    ELSE IF x[1] = 0 THEN MagLt(x, y) ELSE MagLt(y, x)

Le(x, y) == ~Lt(y, x)

-----------------------------------------------------------------------------
(* Aggregate functions of Spark SQL, as update steps of an aggregation buffer *)

\* Mutant of SumUpdate: the latest value replaces the sum.
SumUpdateKeepsLast(acc, v) == IF IsNull(v) THEN acc ELSE v

\* The sum of two values of one type: exact for BIGINT (the volumes of the
\* model stay far below 2^63), rounded for DOUBLE.
Plus(x, y) == IF IsLong(x) THEN Long(x[1] + y[1]) ELSE AddDouble(x, y)

\* The zero of the type of v.
ZeroOf(v) == IF IsLong(v) THEN Long(0) ELSE SignedZero(0)

\* F.sum: NULL values are skipped; the sum of no value is NULL, and a value
\* is added to the sum so far, or to zero when there is none.
SumUpdate(acc, v) == IF IsNull(v) THEN acc
                     ELSE Plus(IF IsNull(acc) THEN ZeroOf(v) ELSE acc, v)

\* F.max and F.min: NULL values are skipped.
MaxUpdate(acc, v) == IF IsNull(v) THEN acc
                     ELSE IF IsNull(acc) THEN v
                     ELSE IF Lt(acc, v) THEN v ELSE acc

\* Mutant of MinUpdate: the first value seen is kept (F.first for F.min).
MinUpdateKeepsFirst(acc, v) == IF IsNull(acc) THEN v ELSE acc

MinUpdate(acc, v) == IF IsNull(v) THEN acc
                     ELSE IF IsNull(acc) THEN v
                     ELSE IF Lt(v, acc) THEN v ELSE acc

\* F.avg keeps the sum of the non-NULL values, a double that starts at 0.0,
\* and their count; the result is sum / count, one more rounded operation,
\* which is NULL when no value was seen.
AvgResult(sum, cnt) == Div(IF IsNull(sum) THEN Num(0) ELSE sum, Num(cnt))

\* Mutant of CountUpdate: F.count('volume_negociado'), which skips NULLs.
CountUpdateNonNull(cnt, r) ==
    IF r.volume_negociado = <<>> THEN cnt ELSE cnt + 1

\* F.count('*'): every row counts, whatever its values.
CountUpdate(cnt, r) == cnt + 1

-----------------------------------------------------------------------------
(* rename_columns *)

\* Mutant of ColumnMapping: the last entry renames the target of the first.
ColumnMappingChained == <<
    <<"Fechamento", "preco_fechamento">>,
    <<"Volume", "volume_negociado">>,
    <<"Abertura", "preco_abertura">>,
    <<"Maxima", "preco_maximo">>,
    <<"Minima", "preco_minimo">>,
    <<"Data", "data">>,
    <<"Ticker", "ticker">>,
    <<"TickerCompleto", "ticker_completo">>,
    <<"Dividendos", "dividendos">>,
    <<"Desdobramentos", "desdobramentos">>,
    <<"Ano", "ano">>,
    <<"Mes", "mes">>,
    <<"preco_fechamento", "fechamento_ajustado">>
>>

\* column_mapping, in the dict's insertion order.
ColumnMapping == <<
    <<"Fechamento", "preco_fechamento">>,
    <<"Volume", "volume_negociado">>,
    <<"Abertura", "preco_abertura">>,
    <<"Maxima", "preco_maximo">>,
    <<"Minima", "preco_minimo">>,
    <<"Data", "data">>,
    <<"Ticker", "ticker">>,
    <<"TickerCompleto", "ticker_completo">>,
    <<"Dividendos", "dividendos">>,
    <<"Desdobramentos", "desdobramentos">>,
    <<"Ano", "ano">>,
    <<"Mes", "mes">>,
    <<"Dia", "dia">>
>>

\* The name a column called `name` has after the entries i..13 of the table
\* were applied in turn (the loop of rename_columns, seen from one column).
RECURSIVE RenamedFrom(_, _)
RenamedFrom(name, i) ==
    IF i > Len(ColumnMapping) THEN name
    ELSE RenamedFrom(IF name = ColumnMapping[i][1] THEN ColumnMapping[i][2]
                     ELSE name, i + 1)

NewName(name) == RenamedFrom(name, 1)

\* One row after rename_columns: same values under the new names.
RenameRow(r) ==
    LET new == [o \in DOMAIN r |-> NewName(o)]
    IN  [c \in {new[o] : o \in DOMAIN r} |->
            r[CHOOSE o \in DOMAIN r : new[o] = c]]

RenameColumns(rows) == [i \in 1..Len(rows) |-> RenameRow(rows[i])]

\* The frame of rename_columns with its schema: df.columns, a sequence of
\* names, and the rows, each a sequence of values in the order of the columns
\* (two columns may come to bear the same name, which a record cannot show).

\* Lower case of a column name.
Lower(name) ==
    CASE name = "Fechamento" -> "fechamento"
      [] name = "Volume" -> "volume"
      [] name = "Abertura" -> "abertura"
      [] name = "Maxima" -> "maxima"
      [] name = "Minima" -> "minima"
      [] name = "Data" -> "data"
      [] name = "Ticker" -> "ticker"
      [] name = "TickerCompleto" -> "tickercompleto"
      [] name = "Dividendos" -> "dividendos"
      [] name = "Desdobramentos" -> "desdobramentos"
      [] name = "Ano" -> "ano"
      [] name = "Mes" -> "mes"
      [] name = "Dia" -> "dia"
      [] name = "Nome" -> "nome"
      [] OTHER -> name

\* The name resolver of the session (spark.sql.caseSensitive is false, the
\* default): withColumnRenamed renames the columns the resolver matches.
Resolver(a, b) == Lower(a) = Lower(b)

\* Mutant of ApplyEntry: the test of the loop uses the resolver too.
ApplyEntryResolved(cols, k) ==
    IF \E i \in DOMAIN cols : Resolver(cols[i], ColumnMapping[k][1])
    THEN [i \in DOMAIN cols |->
             IF Resolver(cols[i], ColumnMapping[k][1])
             THEN ColumnMapping[k][2] ELSE cols[i]]
    ELSE cols

\* One iteration of the loop, for entry k of the table, on the columns cols:
\* if old_name in df.columns: df = df.withColumnRenamed(old_name, new_name)
ApplyEntry(cols, k) ==
    IF \E i \in DOMAIN cols : cols[i] = ColumnMapping[k][1]
    THEN [i \in DOMAIN cols |->
             IF Resolver(cols[i], ColumnMapping[k][1])
             THEN ColumnMapping[k][2] ELSE cols[i]]
    ELSE cols

\* The columns after the iterations for the entries k..13, in that order.
RECURSIVE RenameSchemaFrom(_, _)
RenameSchemaFrom(cols, k) ==
    IF k > Len(ColumnMapping) THEN cols
    ELSE RenameSchemaFrom(ApplyEntry(cols, k), k + 1)

\* rename_columns on a frame: the rows are not touched.
RenameFrame(df) ==
    [columns |-> RenameSchemaFrom(df.columns, 1), rows |-> df.rows]

-----------------------------------------------------------------------------
(* calculate_aggregations *)

GroupKey(r) == <<r.ticker, r.data>>

\* The aggregation buffer of one group before any row.
AggInit == [sum_volume |-> NULL, sum_close |-> NULL, cnt_close |-> 0,
            count |-> 0, seen |-> FALSE, first_open |-> NULL, max_high |-> NULL,
            min_low |-> NULL, last_close |-> NULL, sum_div |-> NULL,
            first_tc |-> NULL]

\* The buffer after one more row of the group: F.sum, F.avg, F.count('*'),
\* F.first (the value of the first row seen, NULL included), F.max, F.min,
\* F.last (the value of the last row seen, NULL included).
AggUpdate(b, r) ==
    [sum_volume |-> SumUpdate(b.sum_volume, r.volume_negociado),
     sum_close  |-> SumUpdate(b.sum_close, r.preco_fechamento),
     cnt_close  |-> IF IsNull(r.preco_fechamento) THEN b.cnt_close
                    ELSE b.cnt_close + 1,
     count      |-> CountUpdate(b.count, r),
     seen       |-> TRUE,
     first_open |-> IF ~b.seen THEN r.preco_abertura ELSE b.first_open,
     max_high   |-> MaxUpdate(b.max_high, r.preco_maximo),
     min_low    |-> MinUpdate(b.min_low, r.preco_minimo),
     last_close |-> r.preco_fechamento,
     sum_div    |-> SumUpdate(b.sum_div, r.dividendos),
     first_tc   |-> IF ~b.seen THEN r.ticker_completo ELSE b.first_tc]

\* Two buffers of one group merged, the one on the left first: the sums
\* and counts are added, F.first keeps the value of the left buffer and
\* F.last takes the value of the right one, when they have seen a row.
AggMerge(l, r) ==
    [sum_volume |-> SumUpdate(l.sum_volume, r.sum_volume),
     sum_close  |-> SumUpdate(l.sum_close, r.sum_close),
     cnt_close  |-> l.cnt_close + r.cnt_close,
     count      |-> l.count + r.count,
     seen       |-> l.seen \/ r.seen,
     first_open |-> IF l.seen THEN l.first_open ELSE r.first_open,
     max_high   |-> MaxUpdate(l.max_high, r.max_high),
     min_low    |-> MinUpdate(l.min_low, r.min_low),
     last_close |-> IF r.seen THEN r.last_close ELSE l.last_close,
     sum_div    |-> SumUpdate(l.sum_div, r.sum_div),
     first_tc   |-> IF l.seen THEN l.first_tc ELSE r.first_tc]

\* The partial aggregation of one input partition: the buffer of group
\* `key` after the rows part[i..] were seen in that order.
RECURSIVE GroupFold(_, _, _, _)
GroupFold(key, part, i, b) ==
    IF i > Len(part) THEN b
    ELSE GroupFold(key, part, i + 1,
                   IF GroupKey(part[i]) = key
                   THEN AggUpdate(b, part[i]) ELSE b)

\* The final aggregation: the buffer of group `key` after the partial
\* buffers of the partitions feed[p..] were merged into it in that order.  A
\* partition without a row of the group has no buffer for it.
RECURSIVE MergeFold(_, _, _, _)
MergeFold(key, feed, p, b) ==
    IF p > Len(feed) THEN b
    ELSE MergeFold(key, feed, p + 1,
                   IF \E i \in 1..Len(feed[p]) : GroupKey(feed[p][i]) = key
                   THEN AggMerge(b, GroupFold(key, feed[p], 1, AggInit))
                   ELSE b)

\* The output row of a group.
AggRow(key, b) ==
    [ticker                 |-> key[1],
     data                   |-> key[2],
     volume_total_diario    |-> b.sum_volume,
     preco_medio_fechamento |-> AvgResult(b.sum_close, b.cnt_close),
     contagem_registros     |-> b.count,
     preco_abertura         |-> b.first_open,
     preco_maximo           |-> b.max_high,
     preco_minimo           |-> b.min_low,
     preco_fechamento       |-> b.last_close,
     dividendos             |-> b.sum_div,
     ticker_completo        |-> b.first_tc]

\* df.groupBy('ticker', 'data').agg(...): one output row per key of the input.
\* `feed` is the input as the engine feeds it to the aggregation: a sequence
\* of partitions, each a sequence of rows.  F.first and F.last depend on the
\* order of the rows and of the partitions, and so do the sums of doubles,
\* which round at every step.
CalculateAggregations(feed) ==
    {AggRow(k, MergeFold(k, feed, 1, AggInit)) :
        k \in UNION {{GroupKey(feed[p][i]) : i \in 1..Len(feed[p])} :
                         p \in 1..Len(feed)}}

\* The permutations of 1..n, as sequences.
Orders(n) == {o \in [1..n -> 1..n] : \A i, j \in 1..n : o[i] = o[j] => i = j}

\* The sequence seq from position a on, cut after every position of C.
RECURSIVE Split(_, _, _)
Split(seq, C, a) ==
    IF a > Len(seq) THEN <<>>
    ELSE LET b == CHOOSE x \in C \cup {Len(seq)} :
                      /\ x >= a
                      /\ \A y \in C \cup {Len(seq)} : y >= a => x <= y
         IN  <<SubSeq(seq, a, b)>> \o Split(seq, C, b + 1)

\* The ways in which the engine may feed the rows of an input: the code
\* fixes none, so the rows come in any order, in any number of partitions.
Feeds(rows) ==
    {Split([i \in 1..Len(rows) |-> rows[o[i]]], C, 1) :
        o \in Orders(Len(rows)), C \in SUBSET (1..(Len(rows) - 1))}

-----------------------------------------------------------------------------
(* calculate_date_based_metrics *)

\* rowsBetween(-6, 0): the frame reaches 6 rows back.
WindowRowsBefore == 6
\* F.lag('preco_fechamento', 1).
LagOffset == 1
\* The factor of the percent change.
PctFactor == 100

\* Window.partitionBy('ticker').orderBy('data'): the rows of one ticker,
\* ascending by date.
RECURSIVE SortByDate(_)
SortByDate(S) ==
    IF S = {} THEN <<>>
    ELSE LET m == CHOOSE r \in S : \A q \in S : r.data <= q.data
         IN  <<m>> \o SortByDate(S \ {m})

TickerPartition(rows, t) == SortByDate({r \in rows : r.ticker = t})

\* Mutant of Frame7d: a frame of calendar days (rangeBetween(-6, 0)).
Frame7dCalendar(seq, i) ==
    {j \in 1..Len(seq) :
        seq[i].data - WindowRowsBefore <= seq[j].data /\ seq[j].data <= seq[i].data}

\* The positions of the frame of window_7d at position i of a partition.
Frame7d(seq, i) ==
    {j \in 1..Len(seq) : i - WindowRowsBefore <= j /\ j <= i}

\* Mutant of FrameAll: the frame of an ordered window (window_ticker), which
\* ends at the current row.
FrameRunning(seq, i) == 1..i

\* The frame of window_all (no orderBy): the whole partition.
FrameAll(seq, i) == 1..Len(seq)

\* The update step of the aggregate function fn.
Update(fn, acc, v) ==
    CASE fn = "sum" -> SumUpdate(acc, v)
      [] fn = "max" -> MaxUpdate(acc, v)
      [] fn = "min" -> MinUpdate(acc, v)

\* The aggregate fn of column col over the positions J of a partition.
RECURSIVE FoldFrame(_, _, _, _, _)
FoldFrame(fn, seq, col, J, acc) ==
    IF J = {} THEN acc
    ELSE LET j == CHOOSE x \in J : \A y \in J : x <= y
         IN  FoldFrame(fn, seq, col, J \ {j}, Update(fn, acc, seq[j][col]))

\* F.avg(col).over(frame J).
AvgOver(seq, col, J) ==
    AvgResult(FoldFrame("sum", seq, col, J, NULL),
              Cardinality({j \in J : ~IsNull(seq[j][col])}))

\* F.lag(col, 1): the value one row back in the partition, NULL if none.
Lag(seq, col, i) == IF i - LagOffset >= 1 THEN seq[i - LagOffset][col] ELSE NULL

\* The condition of F.when in variacao_percentual_diaria,
\* F.col('preco_fechamento_anterior').isNotNull(): the rows it holds of are
\* the rows whose value is the quotient, so the rows whose previous close
\* is the divisor of the engine's division.
PctWhen(prev) == ~IsNull(prev)

\* Mutant of PctChange: the difference is divided by the current close.
PctChangeByClose(close, prev) ==
    IF PctWhen(prev)
    THEN Mul(Div(Sub(close, prev), close), Num(PctFactor))
    ELSE Num(0)

\* Mutant of PctChange: 0.0 also where the row has no close.
PctChangeZeroWithoutClose(close, prev) ==
    IF PctWhen(prev) /\ ~IsNull(close)
    THEN Mul(Div(Sub(close, prev), prev), Num(PctFactor))
    ELSE Num(0)

\* F.when(prev.isNotNull(), (close - prev) / prev * 100).otherwise(0.0)
PctChange(close, prev) ==
    IF PctWhen(prev)
    THEN Mul(Div(Sub(close, prev), prev), Num(PctFactor))
    ELSE Num(0)

\* The row at position i of a ticker's partition, with the four new columns
\* (preco_fechamento_anterior is dropped again, so it is not kept).
MetricsRow(seq, i) ==
    [media_movel_7d |-> AvgOver(seq, "preco_fechamento", Frame7d(seq, i)),
     variacao_percentual_diaria |->
         PctChange(seq[i].preco_fechamento, Lag(seq, "preco_fechamento", i)),
     maxima_periodo |->
         FoldFrame("max", seq, "preco_maximo", FrameAll(seq, i), NULL),
     minima_periodo |->
         FoldFrame("min", seq, "preco_minimo", FrameAll(seq, i), NULL)]
    @@ seq[i]

\* Mutant of CalculateDateBasedMetrics: the rows that have no row before
\* them are dropped.
CalculateDateBasedMetricsDropsFirst(rows) ==
    UNION {LET seq == TickerPartition(rows, t)
           IN  {MetricsRow(seq, i) : i \in 2..Len(seq)} :
        t \in {r.ticker : r \in rows}}

CalculateDateBasedMetrics(rows) ==
    UNION {LET seq == TickerPartition(rows, t)
           IN  {MetricsRow(seq, i) : i \in 1..Len(seq)} :
           t \in {r.ticker : r \in rows}}

-----------------------------------------------------------------------------
(* add_partition_columns *)

\* The calendar fields of day number d: year, month, day of 2024-01-d.
YearOf(d) == 2024
MonthOf(d) == 1
DayOfMonth(d) == d

\* A number in at least two digits.
TwoDigits(n) == IF n < 10 THEN "0" \o ToString(n) ELSE ToString(n)

\* F.date_format('data', 'yyyy-MM-dd')
DateFormat(d) ==
    ToString(YearOf(d)) \o "-" \o TwoDigits(MonthOf(d)) \o "-"
        \o TwoDigits(DayOfMonth(d))

AddPartitionColumns(rows) ==
    {[data_particao |-> DateFormat(r.data), ano |-> YearOf(r.data),
      mes |-> MonthOf(r.data), dia |-> DayOfMonth(r.data)] @@ r : r \in rows}

-----------------------------------------------------------------------------
(* add_quality_columns *)

\* Three-valued SQL logic.
IsNotNull3(x) == IF IsNull(x) THEN "false" ELSE "true"

\* Mutant of Gt3: >= for >.
Ge3(x, y) == IF IsNull(x) \/ IsNull(y) THEN "null"
             ELSE IF Le(y, x) THEN "true" ELSE "false"

Gt3(x, y) == IF IsNull(x) \/ IsNull(y) THEN "null"
             ELSE IF Lt(y, x) THEN "true" ELSE "false"

And3(a, b) == IF a = "false" \/ b = "false" THEN "false"
              ELSE IF a = "null" \/ b = "null" THEN "null" ELSE "true"

\* F.when(cond, a).otherwise(b): a only where cond is true, b where it is
\* false or NULL.
WhenOtherwise(cond, a, b) == IF cond = "true" THEN a ELSE b

\* Mutant of ValidCondition: the volume is not looked at.
ValidConditionCloseOnly(r) ==
    And3(IsNotNull3(r.preco_fechamento), Gt3(r.preco_fechamento, Num(0)))

\* The condition of dados_validos.
ValidCondition(r) ==
    And3(And3(IsNotNull3(r.preco_fechamento),
              IsNotNull3(r.volume_total_diario)),
         Gt3(r.preco_fechamento, Num(0)))

\* F.current_timestamp() of the jobs of run n that write the frame: the job
\* of write_to_refined and, after it, the job of the catalog sink.
WriteTime(n) == 2 * n - 1
SinkTime(n) == 2 * n

\* `now` is F.current_timestamp() of the job that evaluates the frame.
AddQualityColumns(rows, now) ==
    {[data_processamento |-> now,
      dados_validos |-> WhenOtherwise(ValidCondition(r), TRUE, FALSE)] @@ r :
        r \in rows}

-----------------------------------------------------------------------------
(* Inputs *)

\* A raw row as the extractor writes it (source column names).
RawRow(t, d, o, h, l, c, v, tc) ==
    [Ticker |-> t, Data |-> d, Abertura |-> o, Maxima |-> h, Minima |-> l,
     Fechamento |-> c, Volume |-> v, Dividendos |-> SignedZero(0),
     TickerCompleto |-> tc]

\* 'TickerCompleto': f'{ticker}.SA'
TickerCompleto(t) == Str(t \o ".SA")

\* A raw row whose four prices are all p.
FlatRow(t, d, p, v) == RawRow(t, d, p, p, p, p, v, TickerCompleto(t))

\* The same rows after rename_columns (canonical column names).
NormRow(t, d, o, h, l, c, v, tc) ==
    [ticker |-> t, data |-> d, preco_abertura |-> o, preco_maximo |-> h,
     preco_minimo |-> l, preco_fechamento |-> c, volume_negociado |-> v,
     dividendos |-> SignedZero(0), ticker_completo |-> tc]

FlatNormRow(t, d, p, v) == NormRow(t, d, p, p, p, p, v, TickerCompleto(t))

SeqsUpTo(S, n) == UNION {[1..k -> S] : k \in 0..n}

\* Inputs of the aggregation: rows that differ in key and volume, ...
VolumeRows ==
    {FlatRow(k[1], k[2], Price(1), v) :
        k \in AggKeys, v \in {NULL} \cup {Long(x) : x \in Volumes}}

\* ... rows of one key that differ in their prices: every quadruple
\* <<open, high, low, close>> with low <= open, close <= high, and two that
\* are not so (an open above the high, a close below the low), ...
PriceQuads ==
    {q \in Prices \X Prices \X Prices \X Prices :
        q[3] <= q[1] /\ q[1] <= q[2] /\ q[3] <= q[4] /\ q[4] <= q[2]}
        \cup {<<2, 1, 1, 1>>, <<2, 2, 2, 1>>}

PriceRows ==
    {RawRow("A", 1, Price(q[1]), Price(q[2]), Price(q[3]), Price(q[4]),
            Long(1), TickerCompleto("A")) : q \in PriceQuads}

\* ... and rows of one key that differ in ticker_completo.
NameRows ==
    {RawRow("A", 1, Price(1), Price(1), Price(1), Price(1), Long(1), tc) :
        tc \in {TickerCompleto("A"), Str("A3.SA"), NULL}}

\* The elements of a finite set, one after another.
RECURSIVE Listed(_)
Listed(S) ==
    IF S = {} THEN <<>>
    ELSE LET x == CHOOSE y \in S : TRUE IN <<x>> \o Listed(S \ {x})

\* The collections of up to n rows of S, some of them more than once, each
\* as one sequence: the aggregation is fed the rows in every order whatever
\* their order in raw_df (Feeds).
RowsUpTo(S, n) ==
    {[i \in DOMAIN ix |-> Listed(S)[ix[i]]] :
        ix \in {s \in SeqsUpTo(1..Cardinality(S), n) :
                   \A i \in 1..(Len(s) - 1) : s[i] <= s[i + 1]}}

AggInputs(n) ==
    RowsUpTo(VolumeRows, n) \cup RowsUpTo(PriceRows, n)
        \cup RowsUpTo(NameRows, n)

\* The aggregation of rows of distinct keys: every group has one row.
AggOfSingles(S) == {AggRow(GroupKey(r), AggUpdate(AggInit, r)) : r \in S}

\* Inputs of the window metrics: one ticker that trades on any subset D of
\* the days 1..n, and closes at one of the two prices before day j and at
\* the other from day j on.
WindowInputs(n) ==
    {AggOfSingles({FlatNormRow("A", d, Price(IF d < j THEN p ELSE 3 - p),
                               Long(1)) : d \in D}) :
        D \in SUBSET (1..n), j \in 1..n, p \in Prices}

\* Inputs with NULL and zero closes and NULL volumes: per slot no row, or a
\* row with <<close, volume>>.
NullSlots == {<<"A", 1>>, <<"A", 2>>, <<"A", 3>>, <<"B", 2>>}
NullChoices ==
    {<<>>, <<Price(1), NULL>>, <<NULL, NULL>>}
        \cup ({NULL, Num(0), Price(1), Price(2)} \X {Long(1)})
NullInputs(slots) ==
    {AggOfSingles({FlatNormRow(k[1], k[2], f[k][1], f[k][2]) :
                       k \in {x \in slots : f[x] # <<>>}}) :
        f \in [slots -> NullChoices]}

\* Inputs whose highs and lows differ from their closes: per slot no row, or
\* a row with <<low, high>> and close 21.60.
RangeSlots == {<<"A", 1>>, <<"A", 2>>, <<"B", 1>>, <<"B", 2>>}
RangeChoices ==
    {<<>>, <<NULL, NULL>>}
        \cup {<<Price(l), Price(h)>> : l \in {1, 2}, h \in {3, 4}}
RangeInputs(slots) ==
    {AggOfSingles({NormRow(k[1], k[2], Price(2), f[k][2], f[k][1], Price(2),
                           Long(1), TickerCompleto(k[1])) :
                       k \in {x \in slots : f[x] # <<>>}}) :
        f \in [slots -> RangeChoices]}

\* Inputs of rename_columns with their schema: a source name of the table,
\* its canonical name, a name that differs from the source name in case only,
\* a source name whose canonical name differs from it in case only, and a
\* name the table does not have.  spark.read.parquet raises for a schema
\* with two names the resolver matches, so no frame has such a schema.
NameUniverse == {"Fechamento", "preco_fechamento", "fechamento", "Data", "Nome"}

Schemas(n) ==
    {c \in SeqsUpTo(NameUniverse, n) :
        \A i, j \in DOMAIN c : i # j => ~Resolver(c[i], c[j])}

\* A frame of one row, whose values tell the columns apart.
Frames(n) ==
    {[columns |-> c, rows |-> <<[j \in DOMAIN c |-> Num(j)]>>] : c \in Schemas(n)}

\* The rows of the inputs of a whole run, in the order the extractor writes
\* rows (ticker by ticker, date by date): two rows of key (A, 1) that differ
\* in their prices and of which one has no volume, and a row of key (B, 2).
RunRows ==
    <<FlatRow("A", 1, Price(1), Long(1)), FlatRow("A", 1, Price(2), NULL),
      FlatRow("B", 2, Price(1), Long(1))>>

\* Inputs of a whole run: up to n of these rows, in that order.  The order
\* in which a job is fed the rows is open whatever the order of the object
\* (Feeds).
RunInputs(n) ==
    {[i \in DOMAIN ix |-> RunRows[ix[i]]] :
        ix \in {s \in SeqsUpTo(DOMAIN RunRows, n) :
                   \A i \in 1..(Len(s) - 1) : s[i] < s[i + 1]}}

\* The raw bucket.  Either the object at INPUT_PATH can be read, and raw/
\* holds it beside a second object with the same rows (the extractor writes
\* every row to a daily file and to dados_completos.parquet); or it cannot,
\* and raw/ can be read; or neither can be read.
Stores(n) ==
    {[input_ok |-> TRUE, input |-> i, dir_ok |-> TRUE, dir |-> i \o i] :
         i \in RunInputs(n)}
        \cup {[input_ok |-> FALSE, input |-> <<>>, dir_ok |-> TRUE, dir |-> i] :
                  i \in RunInputs(n)}
        \cup {[input_ok |-> FALSE, input |-> <<>>, dir_ok |-> FALSE,
               dir |-> <<>>]}

NoStore == [input_ok |-> FALSE, input |-> <<>>, dir_ok |-> FALSE, dir |-> <<>>]

\* What a first run has before it: no run, and an empty OUTPUT_PATH.
NoRun == [input |-> <<>>, dest |-> {}, outcome |-> "none"]

\* The rows of ticker t among the raw rows, in their order.
TickerRows(rows, t) == SelectSeq(rows, LAMBDA r : r.Ticker = t)

\* The rows read_raw_data returns from a raw bucket (none if it raises).
RowsRead(s) == IF s.input_ok THEN s.input ELSE s.dir

-----------------------------------------------------------------------------
(* main() *)

\* Mutant of ReadRawData: no second read, the first exception leaves the
\* function.
ReadRawDataNoFallback ==
    /\ pc = "read"
    /\ \/ /\ store.input_ok
          /\ raw_df' = store.input
          /\ pc' = "rename"
       \/ /\ ~store.input_ok
          /\ raw_df' = raw_df
          /\ pc' = "except"
    /\ UNCHANGED <<store, renamed_df, agg_df, metrics_df, partitioned_df,
                   final_df, dest, catalog, outcome, clock,
                   todo, last_run>>
    /\ UNCHANGED <<upload_vars, trigger_vars>>

\* read_raw_data: the specific object; if reading it raises, the whole raw/
\* folder; the second read's exception leaves the function.
ReadRawData ==
    /\ pc = "read"
    /\ \/ /\ store.input_ok
          /\ raw_df' = store.input
          /\ pc' = "rename"
       \/ /\ ~store.input_ok
          /\ store.dir_ok
          /\ raw_df' = store.dir
          /\ pc' = "rename"
       \/ /\ ~store.input_ok
          /\ ~store.dir_ok
          /\ raw_df' = raw_df
          /\ pc' = "except"
    /\ UNCHANGED <<store, renamed_df, agg_df, metrics_df, partitioned_df,
                   final_df, dest, catalog, outcome, clock,
                   todo, last_run>>
    /\ UNCHANGED <<upload_vars, trigger_vars>>

RenameColumnsStep ==
    /\ pc = "rename"
    /\ renamed_df' = RenameColumns(raw_df)
    /\ todo' = {}
    /\ pc' = "aggregate"
    /\ UNCHANGED <<store, raw_df, agg_df, metrics_df, partitioned_df,
                   final_df, dest, catalog, outcome, clock,
                   last_run>>
    /\ UNCHANGED <<upload_vars, trigger_vars>>

\* rename_columns on a frame given with its schema.
RenameFrameStep ==
    /\ pc = "rename"
    /\ todo = DOMAIN ColumnMapping
    /\ renamed_df' = RenameFrame(raw_df)
    /\ todo' = {}
    /\ pc' = "aggregate"
    /\ UNCHANGED <<store, raw_df, agg_df, metrics_df, partitioned_df,
                   final_df, dest, catalog, outcome, clock, last_run>>
    /\ UNCHANGED <<upload_vars, trigger_vars>>

\* One iteration of the loop of rename_columns on such a frame, for any entry
\* the loop has not visited: the order of the iterations is left open.  The
\* function returns after the last one.
RenameEntryStep ==
    /\ pc = "rename"
    /\ \E k \in todo :
          /\ renamed_df' = [columns |-> ApplyEntry(renamed_df.columns, k),
                            rows |-> renamed_df.rows]
          /\ todo' = todo \ {k}
    /\ pc' = IF todo' = {} THEN "aggregate" ELSE "rename"
    /\ UNCHANGED <<store, raw_df, agg_df, metrics_df, partitioned_df,
                   final_df, dest, catalog, outcome, clock, last_run>>
    /\ UNCHANGED <<upload_vars, trigger_vars>>

\* calculate_aggregations.  agg_df.count() runs the job that reads and
\* aggregates the rows: it returns, or it raises (a lost object, a lost
\* executor) and main's except clause takes over.
CalculateAggregationsStep ==
    /\ pc = "aggregate"
    /\ \/ /\ \E feed \in Feeds(renamed_df) :
                agg_df' = CalculateAggregations(feed)
          /\ pc' = "metrics"
       \/ /\ agg_df' = agg_df
          /\ pc' = "except"
    /\ UNCHANGED <<store, raw_df, renamed_df, metrics_df, partitioned_df,
                   final_df, dest, catalog, outcome, clock,
                   todo, last_run>>
    /\ UNCHANGED <<upload_vars, trigger_vars>>

CalculateDateBasedMetricsStep ==
    /\ pc = "metrics"
    /\ metrics_df' = CalculateDateBasedMetrics(agg_df)
    /\ pc' = "partition"
    /\ UNCHANGED <<store, raw_df, renamed_df, agg_df, partitioned_df,
                   final_df, dest, catalog, outcome, clock,
                   todo, last_run>>
    /\ UNCHANGED <<upload_vars, trigger_vars>>

\* Mutant of AddPartitionColumnsStep: main goes on to write_to_refined, and
\* add_quality_columns is skipped.
AddPartitionColumnsStepThenWrite ==
    /\ pc = "partition"
    /\ partitioned_df' = AddPartitionColumns(metrics_df)
    /\ pc' = "write"
    /\ UNCHANGED <<store, raw_df, renamed_df, agg_df, metrics_df,
                   final_df, dest, catalog, outcome, clock,
                   todo, last_run>>
    /\ UNCHANGED <<upload_vars, trigger_vars>>

AddPartitionColumnsStep ==
    /\ pc = "partition"
    /\ partitioned_df' = AddPartitionColumns(metrics_df)
    /\ pc' = "quality"
    /\ UNCHANGED <<store, raw_df, renamed_df, agg_df, metrics_df,
                   final_df, dest, catalog, outcome, clock,
                   todo, last_run>>
    /\ UNCHANGED <<upload_vars, trigger_vars>>

AddQualityColumnsStep ==
    /\ pc = "quality"
    /\ final_df' = AddQualityColumns(partitioned_df, WriteTime(clock))
    /\ pc' = "write"
    /\ UNCHANGED <<store, raw_df, renamed_df, agg_df, metrics_df,
                   partitioned_df, dest, catalog, outcome, clock,
                   todo, last_run>>
    /\ UNCHANGED <<upload_vars, trigger_vars>>

\* The objects a writer puts under OUTPUT_PATH for a DataFrame: partitionBy
\* ('data_particao', 'ticker') puts every row in the directory of its
\* partition.
Objects(writer, rows) == {[writer |-> writer, row |-> r] : r \in rows}

\* Mutant of WriteToRefined: main goes on after a write that raised.
WriteToRefinedGoesOn ==
    /\ pc = "write"
    /\ \/ /\ dest' = Objects("spark", final_df)
          /\ pc' = "catalog"
       \/ /\ \E part \in SUBSET dest : dest' = part
          /\ pc' = "catalog"
       \/ /\ \E part \in SUBSET Objects("spark", final_df) : dest' = part
          /\ pc' = "catalog"
    /\ UNCHANGED <<store, raw_df, renamed_df, agg_df, metrics_df,
                   partitioned_df, final_df, catalog, outcome, clock,
                   todo, last_run>>
    /\ UNCHANGED <<upload_vars, trigger_vars>>

\* write_to_refined.  mode('overwrite') removes what OUTPUT_PATH holds, one
\* object after another, and writes the objects of final_df.  A failing
\* write raises; it may have failed before or during the removal, with all
\* or a part of the old objects left, or after it with none, a part or all
\* of the new objects written (all of them when the job fails as it commits).
WriteToRefined ==
    /\ pc = "write"
    /\ \/ /\ dest' = Objects("spark", final_df)
          /\ pc' = "catalog"
       \/ /\ \E part \in SUBSET dest : dest' = part
          /\ pc' = "except"
       \/ /\ \E part \in SUBSET Objects("spark", final_df) : dest' = part
          /\ pc' = "except"
    /\ UNCHANGED <<store, raw_df, renamed_df, agg_df, metrics_df,
                   partitioned_df, final_df, catalog, outcome, clock,
                   todo, last_run>>
    /\ UNCHANGED <<upload_vars, trigger_vars>>

\* final_df is a plan, which every job that uses it evaluates: the rows are
\* read again (nothing changes the raw bucket during a run), renamed and
\* aggregated in the way the engine feeds them to this job, and
\* current_timestamp is the time of this job.
SinkFrames(s, now) ==
    {AddQualityColumns(
         AddPartitionColumns(
             CalculateDateBasedMetrics(CalculateAggregations(feed))), now) :
        feed \in Feeds(RenameColumns(RowsRead(s)))}

\* Mutant of RegisterInCatalog: the exception of the sink leaves the function.
RegisterInCatalogRaises ==
    /\ pc = "catalog"
    /\ \E frame \in SinkFrames(store, SinkTime(clock)) :
          \/ /\ dest' = dest \cup Objects("sink", frame)
             /\ catalog' = TRUE
             /\ pc' = "stats"
          \/ /\ \E part \in SUBSET Objects("sink", frame) :
                   dest' = dest \cup part
             /\ catalog' = catalog
             /\ pc' = "except"
    /\ UNCHANGED <<store, raw_df, renamed_df, agg_df, metrics_df,
                   partitioned_df, final_df, outcome, clock, todo, last_run>>
    /\ UNCHANGED <<upload_vars, trigger_vars>>

\* register_in_catalog.  sink.writeFrame runs a job of its own, which
\* evaluates the frame, writes its objects under path=OUTPUT_PATH (a
\* DynamicFrame sink adds objects, it removes none) and then updates the
\* catalog table.  Any exception is caught and printed: the sink may have
\* written none, some or all of its objects by then.
RegisterInCatalog ==
    /\ pc = "catalog"
    /\ \E frame \in SinkFrames(store, SinkTime(clock)) :
          \/ /\ dest' = dest \cup Objects("sink", frame)
             /\ catalog' = TRUE
          \/ /\ \E part \in SUBSET Objects("sink", frame) :
                   dest' = dest \cup part
             /\ catalog' = catalog
    /\ pc' = "stats"
    /\ UNCHANGED <<store, raw_df, renamed_df, agg_df, metrics_df,
                   partitioned_df, final_df, outcome, clock,
                   todo, last_run>>
    /\ UNCHANGED <<upload_vars, trigger_vars>>

\* create_summary_statistics and the success message; its collect() and
\* count() run jobs, which return or raise.
CreateSummaryStatistics ==
    /\ pc = "stats"
    /\ \/ /\ outcome' = "success"
          /\ pc' = "commit"
       \/ /\ outcome' = outcome
          /\ pc' = "except"
    /\ UNCHANGED <<store, raw_df, renamed_df, agg_df, metrics_df,
                   partitioned_df, final_df, dest, catalog, clock,
                   todo, last_run>>
    /\ UNCHANGED <<upload_vars, trigger_vars>>

\* Mutant of ExceptHandler: the handler removes what OUTPUT_PATH holds.
ExceptHandlerClearsDest ==
    /\ pc = "except"
    /\ outcome' = "failed"
    /\ dest' = {}
    /\ pc' = "commit"
    /\ UNCHANGED <<store, raw_df, renamed_df, agg_df, metrics_df,
                   partitioned_df, final_df, catalog, clock, todo, last_run>>
    /\ UNCHANGED <<upload_vars, trigger_vars>>

\* Mutant of ExceptHandler: the exception leaves main before job.commit().
ExceptHandlerSkipsCommit ==
    /\ pc = "except"
    /\ outcome' = "failed"
    /\ pc' = "done"
    /\ UNCHANGED <<store, raw_df, renamed_df, agg_df, metrics_df,
                   partitioned_df, final_df, dest, catalog, clock,
                   todo, last_run>>
    /\ UNCHANGED <<upload_vars, trigger_vars>>

\* except Exception: the error is printed and raised again.
ExceptHandler ==
    /\ pc = "except"
    /\ outcome' = "failed"
    /\ pc' = "commit"
    /\ UNCHANGED <<store, raw_df, renamed_df, agg_df, metrics_df,
                   partitioned_df, final_df, dest, catalog, clock,
                   todo, last_run>>
    /\ UNCHANGED <<upload_vars, trigger_vars>>

\* finally: job.commit()
JobCommit ==
    /\ pc = "commit"
    /\ pc' = "done"
    /\ UNCHANGED <<store, raw_df, renamed_df, agg_df, metrics_df,
                   partitioned_df, final_df, dest, catalog, outcome, clock,
                   todo, last_run>>
    /\ UNCHANGED <<upload_vars, trigger_vars>>

\* The next run of the job: a new process, whose locals are fresh, on what
\* the raw bucket holds by then.
StartRun ==
    /\ pc = "done"
    /\ clock < MaxRuns
    /\ clock' = clock + 1
    /\ store' \in Stores(MaxRunRows)
    /\ pc' = "read"
    /\ raw_df' = <<>>
    /\ renamed_df' = <<>>
    /\ agg_df' = {}
    /\ metrics_df' = {}
    /\ partitioned_df' = {}
    /\ final_df' = {}
    /\ outcome' = "none"
    /\ todo' = DOMAIN ColumnMapping
    /\ last_run' = NoRun
    /\ UNCHANGED <<dest, catalog>>
    /\ UNCHANGED <<upload_vars, trigger_vars>>

\* scripts/deploy_aws.py --cleanup, which an operator may run at any time:
\* of what the model holds, cleanup_resources removes the tables of the
\* database, and leaves what is under OUTPUT_PATH.  A ClientError of
\* get_tables or delete_table (the database is not there, access is denied)
\* is logged, and the table stays.
CleanupResources ==
    /\ \/ catalog' = FALSE
       \/ catalog' = catalog
    /\ UNCHANGED <<pc, store, raw_df, renamed_df, agg_df, metrics_df,
                   partitioned_df, final_df, dest, outcome, clock, todo,
                   last_run>>
    /\ UNCHANGED <<upload_vars, trigger_vars>>

\* The job run again on the same raw bucket.
Rerun ==
    /\ pc = "done"
    /\ clock < MaxRuns
    /\ clock' = clock + 1
    /\ store' = store
    /\ pc' = "read"
    /\ raw_df' = <<>>
    /\ renamed_df' = <<>>
    /\ agg_df' = {}
    /\ metrics_df' = {}
    /\ partitioned_df' = {}
    /\ final_df' = {}
    /\ outcome' = "none"
    /\ todo' = DOMAIN ColumnMapping
    /\ last_run' = [input |-> raw_df, dest |-> dest, outcome |-> outcome]
    /\ UNCHANGED <<dest, catalog>>
    /\ UNCHANGED <<upload_vars, trigger_vars>>

\* The job run again after the raw bucket changed in the rows of other
\* tickers only: some ticker has the rows it had, and the rest differs.
RunOtherTickers ==
    /\ pc = "done"
    /\ clock < MaxRuns
    /\ clock' = clock + 1
    /\ \E s \in Stores(MaxRunRows + 1) :
          /\ RowsRead(s) # raw_df
          /\ \E t \in Tickers :
                /\ TickerRows(raw_df, t) # <<>>
                /\ TickerRows(RowsRead(s), t) = TickerRows(raw_df, t)
          /\ store' = s
    /\ pc' = "read"
    /\ raw_df' = <<>>
    /\ renamed_df' = <<>>
    /\ agg_df' = {}
    /\ metrics_df' = {}
    /\ partitioned_df' = {}
    /\ final_df' = {}
    /\ outcome' = "none"
    /\ todo' = DOMAIN ColumnMapping
    /\ last_run' = [input |-> raw_df, dest |-> dest, outcome |-> outcome]
    /\ UNCHANGED <<dest, catalog>>
    /\ UNCHANGED <<upload_vars, trigger_vars>>

-----------------------------------------------------------------------------
(* Text: paths, object keys and event names *)

\* A path, an object key or an event name is a sequence of pieces of text,
\* and stands for their concatenation: <<"raw", "/", "a", ".parquet">> is
\* raw/a.parquet.  The pieces are chosen so that no piece begins or ends
\* with a part of another: a prefix or suffix of the text is a prefix or
\* suffix of the sequence.

\* str.startswith and str.endswith
StartsWith(s, p) == Len(s) >= Len(p) /\ SubSeq(s, 1, Len(p)) = p
EndsWith(s, p) ==
    Len(s) >= Len(p) /\ SubSeq(s, Len(s) - Len(p) + 1, Len(s)) = p

\* urllib.parse.unquote_plus on one piece: '+' is a space, and a percent
\* escape is the character it encodes.
UnquotePiece(t) ==
    CASE t = "+" -> " "
      [] t = "%2F" -> "/"
      [] t = "%2B" -> "+"
      [] t = "%3D" -> "="
      [] OTHER -> t

\* Mutant of UnquotePlus: urllib.parse.unquote, which leaves '+' as it is.
UnquotePlusKeepsPlus(s) ==
    [i \in 1..Len(s) |-> IF s[i] = "+" THEN "+" ELSE UnquotePiece(s[i])]

UnquotePlus(s) == [i \in 1..Len(s) |-> UnquotePiece(s[i])]

-----------------------------------------------------------------------------
(* scripts/upload_to_s3.py: S3Uploader.upload_directory, verify_upload,   *)
(* list_files and main                                                    *)

\* Files of the local directory, by their path relative to it.
ParquetList ==
    << <<"a", ".parquet">>, <<"d", "/", "b", ".parquet">>,
       <<"d", "/", "c", ".parquet">>, <<"e", ".parquet">> >>
ParquetFiles(n) == {ParquetList[i] : i \in 1..n}
OtherFiles == {<<"a", ".csv">>}
LocalDirs(n) ==
    {P \cup O : P \in SUBSET ParquetFiles(n), O \in SUBSET OtherFiles}

\* local_path.rglob('*.parquet')
Rglob(dir) == {f \in dir : EndsWith(f, <<".parquet">>)}

\* s3_key = f"{s3_prefix}/{relative_path}", with main's default --s3-prefix
S3Key(f) == <<"raw", "/">> \o f

\* What a call of s3_client.upload_file does: it returns, it raises a
\* ClientError, or it raises another exception (boto3 reports a failed
\* transfer as S3UploadFailedError and a failed connection as a
\* BotoCoreError; neither is a ClientError).
UploadResults == {"ok", "ClientError", "other exception"}

\* One iteration of the loop of upload_directory: upload_file on the next
\* file.  upload_file catches ClientError and returns False; any other
\* exception leaves upload_file, upload_directory and main.
UploadDirectoryStep ==
    /\ upload_pc = "loop"
    /\ \E f \in pending, result \in UploadResults :
          /\ pending' = pending \ {f}
          /\ attempts' = [attempts EXCEPT ![f] = @ + 1]
          /\ uploaded' = IF result = "ok" THEN uploaded \cup {S3Key(f)}
                         ELSE uploaded
          /\ success_count' = IF result = "ok" THEN success_count + 1
                              ELSE success_count
          /\ fail_count' = IF result = "ClientError" THEN fail_count + 1
                           ELSE fail_count
          /\ upload_pc' = IF result = "other exception"
                          THEN "raised in upload_file"
                          ELSE upload_pc
    /\ UNCHANGED <<etl_vars, trigger_vars>>

\* The loop is over: upload_directory returns (success_count, fail_count)
\* to main, which goes on with verify_upload when --verify was given and
\* with list_files otherwise.
UploadDirectoryReturn ==
    /\ upload_pc = "loop"
    /\ pending = {}
    /\ \E verify \in BOOLEAN :
          upload_pc' = IF verify THEN "verify" ELSE "list"
    /\ UNCHANGED <<pending, attempts, uploaded, success_count, fail_count>>
    /\ UNCHANGED <<etl_vars, trigger_vars>>

\* What a call of s3_client.head_object or s3_client.list_objects_v2 does:
\* it returns, it raises a ClientError, or it raises another exception (a
\* failed connection or missing credentials are BotoCoreErrors).
RequestResults == {"ok", "ClientError", "other exception"}

\* verify_upload: head_object on the key of every *.parquet file of the
\* local directory.  A ClientError counts the file as missing; any other
\* exception leaves verify_upload and main.
VerifyUpload ==
    /\ upload_pc = "verify"
    /\ \E results \in [Rglob(DOMAIN attempts) -> RequestResults] :
          upload_pc' =
              IF \E f \in DOMAIN results : results[f] = "other exception"
              THEN "raised in verify_upload"
              ELSE "list"
    /\ UNCHANGED <<pending, attempts, uploaded, success_count, fail_count>>
    /\ UNCHANGED <<etl_vars, trigger_vars>>

\* The end of main: list_files, which catches a ClientError of
\* list_objects_v2 and returns [], and which any other exception leaves,
\* together with main; then main returns 1 if failures > 0 and 0 otherwise.
UploadMainReturn ==
    /\ upload_pc = "list"
    /\ \E result \in RequestResults :
          upload_pc' =
              IF result = "other exception" THEN "raised in list_files"
              ELSE IF fail_count > 0 THEN "return 1"
              ELSE "return 0"
    /\ UNCHANGED <<pending, attempts, uploaded, success_count, fail_count>>
    /\ UNCHANGED <<etl_vars, trigger_vars>>

\* No upload in progress.
NoUpload ==
    /\ pending = {}
    /\ attempts = <<>>
    /\ uploaded = {}
    /\ success_count = 0
    /\ fail_count = 0
    /\ upload_pc = "return 0"

-----------------------------------------------------------------------------
(* lambda/trigger_glue_job.py: lambda_handler and start_glue_job           *)

\* os.environ.get('OUTPUT_BUCKET', '')
OUTPUT_BUCKET == ""

\* The records of S3 events: an event name, a bucket and a key as S3 sends
\* it (URL-encoded).
EventNames ==
    {<<"ObjectCreated", ":", "Put">>, <<"ObjectRemoved", ":", "Delete">>,
     <<"s3", ":", "ObjectCreated", ":", "Put">>}
EventKeys ==
    {<<"raw", "/", "a", ".parquet">>,
     <<"raw", "%2F", "b", "+", "c", ".parquet">>,
     <<"raw", "/", "a", ".csv">>,
     <<"refined", "/", "a", ".parquet">>}
S3Record(e, k) == [eventName |-> e, bucket |-> "b3", key |-> k]
RecordSet ==
    {S3Record(<<"ObjectCreated", ":", "Put">>, k) : k \in EventKeys}
        \cup {S3Record(e, <<"raw", "/", "a", ".parquet">>) : e \in EventNames}
Events(n) == SeqsUpTo(RecordSet, n)

\* job_arguments (the arguments the job reads)
JobArguments(record, object_key) ==
    [input_bucket |-> record.bucket,
     input_key |-> object_key,
     output_bucket |-> IF OUTPUT_BUCKET # "" THEN OUTPUT_BUCKET
                       ELSE record.bucket]

\* A run start_job_run has started.
NewRun(arguments) == [arguments |-> arguments]

\* The ways start_job_run fails other than by the limit of concurrent runs.
StartFailures == {"EntityNotFoundException", "Exception"}
StartResults == {"STARTED", "ALREADY_RUNNING"} \cup StartFailures

\* start_glue_job, with the status it returns or the exception it raises.
\* What glue_client.start_job_run answers is the service's: it starts a run,
\* or it raises ConcurrentRunsExceededException, which start_glue_job turns
\* into the status ALREADY_RUNNING, or EntityNotFoundException or another
\* exception, which start_glue_job raises again.
StartGlueJob(arguments, status) ==
    \/ /\ status = "STARTED"
       /\ job_runs' = Append(job_runs, NewRun(arguments))
    \/ /\ status \in {"ALREADY_RUNNING"} \cup StartFailures
       /\ job_runs' = job_runs

\* Mutant of LambdaHandlerRecord: the limit of concurrent runs is an error
\* like the others.
LambdaHandlerRecordRaisesOnLimit ==
    /\ handler = "running"
    /\ records # <<>>
    /\ LET record == Head(records)
           object_key == UnquotePlus(record.key)
       IN  IF \/ ~StartsWith(record.eventName, <<"ObjectCreated">>)
              \/ ~StartsWith(object_key, <<"raw", "/">>)
              \/ ~EndsWith(object_key, <<".parquet">>)
           THEN UNCHANGED <<handler, requests, job_runs>>
           ELSE \E status \in StartResults :
                   /\ StartGlueJob(JobArguments(record, object_key), status)
                   /\ requests' =
                          Append(requests,
                                 [arguments |-> JobArguments(record, object_key),
                                  status |-> status])
                   /\ handler' = IF status # "STARTED" THEN "raised"
                                 ELSE handler
    /\ records' = Tail(records)
    /\ UNCHANGED event
    /\ UNCHANGED <<etl_vars, upload_vars>>

\* One iteration of the loop of lambda_handler.  A record whose event is
\* not a creation, or whose decoded key is not a .parquet under raw/, is
\* skipped; for the others start_glue_job is called, and an exception it
\* raises leaves lambda_handler.
LambdaHandlerRecord ==
    /\ handler = "running"
    /\ records # <<>>
    /\ LET record == Head(records)
           object_key == UnquotePlus(record.key)
       IN  IF \/ ~StartsWith(record.eventName, <<"ObjectCreated">>)
              \/ ~StartsWith(object_key, <<"raw", "/">>)
              \/ ~EndsWith(object_key, <<".parquet">>)
           THEN UNCHANGED <<handler, requests, job_runs>>
           ELSE \E status \in StartResults :
                   /\ StartGlueJob(JobArguments(record, object_key), status)
                   /\ requests' =
                          Append(requests,
                                 [arguments |-> JobArguments(record, object_key),
                                  status |-> status])
                   /\ handler' = IF status \in StartFailures THEN "raised"
                                 ELSE handler
    /\ records' = Tail(records)
    /\ UNCHANGED event
    /\ UNCHANGED <<etl_vars, upload_vars>>

\* The loop is over: lambda_handler returns statusCode 200.
LambdaHandlerReturn ==
    /\ handler = "running"
    /\ records = <<>>
    /\ handler' = "200"
    /\ UNCHANGED <<event, records, requests, job_runs>>
    /\ UNCHANGED <<etl_vars, upload_vars>>

\* Another invocation of the Lambda, for another upload, starts a run.
ConcurrentInvocation ==
    /\ Len(job_runs) < MaxJobRuns
    /\ \E record \in RecordSet :
          /\ StartsWith(record.eventName, <<"ObjectCreated">>)
          /\ StartsWith(UnquotePlus(record.key), <<"raw", "/">>)
          /\ EndsWith(UnquotePlus(record.key), <<".parquet">>)
          /\ StartGlueJob(JobArguments(record, UnquotePlus(record.key)),
                          "STARTED")
    /\ UNCHANGED <<event, records, handler, requests>>
    /\ UNCHANGED <<etl_vars, upload_vars>>

\* No invocation of the Lambda and no run of the job.
NoTrigger ==
    /\ event = <<>>
    /\ records = <<>>
    /\ handler = "200"
    /\ requests = <<>>
    /\ job_runs = <<>>

\* No run of main() in progress.
NoJob ==
    /\ pc = "done"
    /\ store = NoStore
    /\ raw_df = <<>>
    /\ renamed_df = <<>>
    /\ agg_df = {}
    /\ metrics_df = {}
    /\ partitioned_df = {}
    /\ final_df = {}
    /\ dest = {}
    /\ catalog = FALSE
    /\ outcome = "none"
    /\ clock = 1
    /\ todo = {}
    /\ last_run = NoRun

-----------------------------------------------------------------------------
(* Properties of calculate_aggregations *)

\* main() is past calculate_aggregations: agg_df is the aggregation of
\* renamed_df.
AfterAggregation ==
    pc \in {"metrics", "partition", "quality", "write", "catalog", "stats"}

InputKeys == {GroupKey(renamed_df[i]) : i \in 1..Len(renamed_df)}

\* The keys of a set of rows.
KeysOf(rows) == {GroupKey(r) : r \in rows}

\* The positions of the raw rows that carry key k.
RowsOfKey(k) == {i \in 1..Len(renamed_df) : GroupKey(renamed_df[i]) = k}

\* A BIGINT column value as an integer, NULL counting as nothing.
IntVal(x) == IF IsNull(x) THEN 0 ELSE x[1]

\* The sum of the volumes of the raw rows at the positions I.
RECURSIVE VolumeOfRows(_)
VolumeOfRows(I) ==
    IF I = {} THEN 0
    ELSE LET i == CHOOSE x \in I : TRUE
         IN  IntVal(renamed_df[i].volume_negociado) + VolumeOfRows(I \ {i})

\* The sum of volume_total_diario over the aggregated rows G.
RECURSIVE VolumeOfGroups(_)
VolumeOfGroups(G) ==
    IF G = {} THEN 0
    ELSE LET g == CHOOSE x \in G : TRUE
         IN  IntVal(g.volume_total_diario) + VolumeOfGroups(G \ {g})

\* C1: every key of the input has an aggregated row whose
\* volume_total_diario is the sum of the volumes of exactly the raw rows of
\* that key (of those that carry a volume), and the totals of all groups add
\* up to the volume of all raw rows.
C1_VolumeConservation ==
    AfterAggregation =>
        /\ \A k \in InputKeys : \E g \in agg_df : GroupKey(g) = k
        /\ \A g \in agg_df :
              (\E i \in RowsOfKey(GroupKey(g)) :
                   ~IsNull(renamed_df[i].volume_negociado))
              => g.volume_total_diario = Long(VolumeOfRows(RowsOfKey(GroupKey(g))))
        /\ VolumeOfGroups(agg_df) = VolumeOfRows(1..Len(renamed_df))

\* A group of two rows with volumes 1 and 2 beside another group.
C1_Witness ==
    /\ AfterAggregation
    /\ Cardinality(agg_df) >= 2
    /\ \E g \in agg_df :
          /\ g.contagem_registros = 2
          /\ g.volume_total_diario = Long(3)

\* C2: the aggregated rows are exactly one per key of the input: no key of
\* the input is missing, no other key appears, no key appears twice, and
\* contagem_registros is the number of raw rows of the key, which is >= 1.
C2_OneRowPerKey ==
    AfterAggregation =>
        /\ {GroupKey(g) : g \in agg_df} = InputKeys
        /\ \A g1, g2 \in agg_df : GroupKey(g1) = GroupKey(g2) => g1 = g2
        /\ \A g \in agg_df :
              /\ g.contagem_registros = Cardinality(RowsOfKey(GroupKey(g)))
              /\ g.contagem_registros >= 1

\* Two groups, one of them of two rows one of which has no volume.
C2_Witness ==
    /\ AfterAggregation
    /\ Cardinality(agg_df) = 2
    /\ \E g \in agg_df :
          /\ g.contagem_registros = 2
          /\ \E i \in RowsOfKey(GroupKey(g)) :
                IsNull(renamed_df[i].volume_negociado)

\* low <= open <= high and low <= close <= high, none of them NULL.
WellFormed(r) ==
    /\ ~IsNull(r.preco_abertura) /\ ~IsNull(r.preco_fechamento)
    /\ ~IsNull(r.preco_maximo) /\ ~IsNull(r.preco_minimo)
    /\ Le(r.preco_minimo, r.preco_abertura)
    /\ Le(r.preco_abertura, r.preco_maximo)
    /\ Le(r.preco_minimo, r.preco_fechamento)
    /\ Le(r.preco_fechamento, r.preco_maximo)

\* C3: an aggregated row whose raw rows are all well-formed is well-formed:
\* low <= min(open, close) and max(open, close) <= high.
C3_AggregatedWellFormed ==
    AfterAggregation =>
        \A g \in agg_df :
            (\A i \in RowsOfKey(GroupKey(g)) : WellFormed(renamed_df[i]))
            => WellFormed(g)

\* A group of several well-formed rows whose open and close come from
\* different rows: open 21.60 from a row that never traded below 21.60,
\* close 10.80.
C3_Witness ==
    /\ AfterAggregation
    /\ \E g \in agg_df :
          /\ g.contagem_registros >= 2
          /\ \A i \in RowsOfKey(GroupKey(g)) : WellFormed(renamed_df[i])
          /\ \E i \in RowsOfKey(GroupKey(g)) :
                renamed_df[i].preco_minimo = Price(2)
          /\ g.preco_abertura = Price(2)
          /\ g.preco_fechamento = Price(1)

\* The first and the last position of a non-empty set of positions.
FirstOf(I) == CHOOSE i \in I : \A j \in I : i <= j
LastOf(I) == CHOOSE i \in I : \A j \in I : j <= i

\* C4: open and ticker_completo of a group are those of its first raw row
\* and close is that of its last raw row, in one explicit order of the rows
\* (the order of ingestion), so that an input has one result.
C4_FirstLastInIngestionOrder ==
    AfterAggregation =>
        \A g \in agg_df :
            LET I == RowsOfKey(GroupKey(g))
            IN  /\ g.preco_abertura = renamed_df[FirstOf(I)].preco_abertura
                /\ g.ticker_completo = renamed_df[FirstOf(I)].ticker_completo
                /\ g.preco_fechamento = renamed_df[LastOf(I)].preco_fechamento

-----------------------------------------------------------------------------
(* Properties of calculate_date_based_metrics and add_quality_columns *)

\* main() is past calculate_date_based_metrics.
AfterMetrics == pc \in {"partition", "quality", "write", "catalog", "stats"}

\* main() is past add_quality_columns.
AfterQuality == pc \in {"write", "catalog", "stats"}

\* The aggregated rows of the ticker of row r.
SameTicker(r) == {s \in agg_df : s.ticker = r.ticker}

\* The 0-indexed position of row r in its ticker's date-ascending sequence.
Pos(r) == Cardinality({s \in SameTicker(r) : s.data < r.data})

\* The aggregated rows at the positions max(0, i-6) .. i, i the position of r.
TrailingWindow(r) ==
    LET i == Pos(r)
    IN  {s \in SameTicker(r) : s.data <= r.data /\ i - 6 <= Pos(s)}

\* The rows of W that have a close.
WithClose(W) == {s \in W : ~IsNull(s.preco_fechamento)}

\* The sum of the closes of the rows W (of one ticker, each with a close) as
\* doubles give it: the closes added to 0.0 one by one, ascending by date.
RECURSIVE CloseSum(_)
CloseSum(W) ==
    IF W = {} THEN Num(0)
    ELSE LET s == CHOOSE x \in W : \A y \in W : y.data <= x.data
         IN  Add(CloseSum(W \ {s}), s.preco_fechamento)

\* Every aggregated row has its enriched row.
AllEnriched ==
    \A g \in agg_df : \E r \in metrics_df : GroupKey(r) = GroupKey(g)

\* C5: media_movel_7d of the row at position i of a ticker is the mean of
\* the closes at the positions max(0, i-6) .. i of that ticker: a window of
\* rows, whatever their dates (the mean of the closes present; NULL if the
\* window has none).  The mean is the one of doubles: the sum of the closes
\* in the order of their dates, divided by their number.
C5_MovingAverage ==
    AfterMetrics =>
        /\ AllEnriched
        /\ \A r \in metrics_df :
              LET W == WithClose(TrailingWindow(r))
              IN  IF W = {} THEN IsNull(r.media_movel_7d)
                  ELSE r.media_movel_7d
                           = Div(CloseSum(W), Num(Cardinality(W)))

\* The eighth row of a ticker whose first close is 10.80 and whose seven
\* later closes are 21.60: its average is that of the seven, within a cent
\* of 21.60.
C5_Witness ==
    /\ AfterMetrics
    /\ \E r \in metrics_df :
          /\ Pos(r) = 7
          /\ Lt(Cents(2159), r.media_movel_7d)
          /\ Lt(r.media_movel_7d, Cents(2161))
          /\ \E s \in SameTicker(r) :
                Pos(s) = 0 /\ s.preco_fechamento = Price(1)

\* C6: media_movel_7d lies between the least and the greatest close of the
\* row's trailing window (of the closes the window has).
C6_MovingAverageBounded ==
    AfterMetrics =>
        /\ AllEnriched
        /\ \A r \in metrics_df :
              LET W == WithClose(TrailingWindow(r))
              IN  W # {} =>
                      /\ ~IsNull(r.media_movel_7d)
                      /\ \E lo \in W : Le(lo.preco_fechamento, r.media_movel_7d)
                            /\ \A s \in W :
                                  Le(lo.preco_fechamento, s.preco_fechamento)
                      /\ \E hi \in W : Le(r.media_movel_7d, hi.preco_fechamento)
                            /\ \A s \in W :
                                  Le(s.preco_fechamento, hi.preco_fechamento)

\* The close of the row just before r in its ticker's sequence (Pos(r) > 0).
PrevClose(r) ==
    (CHOOSE s \in SameTicker(r) : Pos(s) = Pos(r) - 1).preco_fechamento

\* (close - prev) / prev * 100
PctFormula(close, prev) == Mul(Div(Sub(close, prev), prev), Num(100))

\* C7 as stated: variacao_percentual_diaria is
\* (close[i] - close[i-1]) / close[i-1] * 100 at every position i > 0 and 0.0
\* at position 0, close[i-1] being the close of the same ticker's row before.
C7_PctChangeAsStated ==
    AfterMetrics =>
        \A r \in metrics_df :
            r.variacao_percentual_diaria =
                IF Pos(r) > 0 THEN PctFormula(r.preco_fechamento, PrevClose(r))
                ELSE Num(0)

\* C7 amended: the formula applies at i > 0 when close[i-1] is not NULL; the
\* value is 0.0 at position 0 and wherever close[i-1] is NULL.
C7_PctChangeAmended ==
    AfterMetrics =>
        /\ AllEnriched
        /\ \A r \in metrics_df :
              r.variacao_percentual_diaria =
                  IF Pos(r) > 0 /\ ~IsNull(PrevClose(r))
                  THEN PctFormula(r.preco_fechamento, PrevClose(r))
                  ELSE Num(0)

\* A ticker with a row after a row without close (0.0), and a row whose
\* close fell from 21.60 to 10.80 (-50) while the other ticker traded in
\* between.
C7_Witness ==
    /\ AfterMetrics
    /\ \E r \in metrics_df :
          /\ Pos(r) > 0
          /\ IsNull(PrevClose(r))
          /\ ~IsNull(r.preco_fechamento)
          /\ r.variacao_percentual_diaria = Num(0)
    /\ \E r \in metrics_df :
          /\ Pos(r) > 0
          /\ r.variacao_percentual_diaria = Num(-50)
          /\ \E o \in agg_df : o.ticker # r.ticker /\ o.data < r.data

\* x is the greatest (the least) of the values V that are not NULL, and NULL
\* if there is none.
IsGreatest(x, V) ==
    IF V \ {NULL} = {} THEN IsNull(x)
    ELSE x \in V \ {NULL} /\ \A y \in V \ {NULL} : Le(y, x)

IsLeast(x, V) ==
    IF V \ {NULL} = {} THEN IsNull(x)
    ELSE x \in V \ {NULL} /\ \A y \in V \ {NULL} : Le(x, y)

\* C8: all rows of a ticker carry the same maxima_periodo and minima_periodo:
\* the greatest preco_maximo and the least preco_minimo of all aggregated
\* rows of the ticker.
C8_PeriodExtremes ==
    AfterMetrics =>
        /\ AllEnriched
        /\ \A r \in metrics_df :
              /\ IsGreatest(r.maxima_periodo,
                            {s.preco_maximo : s \in SameTicker(r)})
              /\ IsLeast(r.minima_periodo,
                         {s.preco_minimo : s \in SameTicker(r)})
        /\ \A r1, r2 \in metrics_df :
              r1.ticker = r2.ticker =>
                  /\ r1.maxima_periodo = r2.maxima_periodo
                  /\ r1.minima_periodo = r2.minima_periodo

\* The earlier row of a ticker carries the high of a later row and the low
\* of a later row, which are not closes, while the other ticker has other
\* extremes.
C8_Witness ==
    /\ AfterMetrics
    /\ \E r1, r2 \in metrics_df :
          /\ r1.ticker = r2.ticker
          /\ r1.data < r2.data
          /\ ~IsNull(r1.preco_maximo) /\ ~IsNull(r2.preco_maximo)
          /\ Lt(r1.preco_maximo, r2.preco_maximo)
          /\ Lt(r2.preco_minimo, r1.preco_minimo)
          /\ r1.maxima_periodo = r2.preco_maximo
          /\ r1.minima_periodo = r2.preco_minimo
          /\ r1.maxima_periodo # r2.preco_fechamento
          /\ \E o \in metrics_df :
                o.ticker # r1.ticker /\ o.maxima_periodo # r1.maxima_periodo

\* C9: dados_validos is a boolean, true exactly when close and
\* volume_total_diario are not NULL and close > 0.
C9_IsValid ==
    AfterQuality =>
        /\ \A g \in agg_df : \E r \in final_df : GroupKey(r) = GroupKey(g)
        /\ \A r \in final_df :
              /\ r.dados_validos \in BOOLEAN
              /\ r.dados_validos <=>
                    /\ ~IsNull(r.preco_fechamento)
                    /\ ~IsNull(r.volume_total_diario)
                    /\ Lt(Num(0), r.preco_fechamento)

\* Rows with close 0 and a volume, with no close, with a close and no
\* volume (all invalid) beside a valid row.
C9_Witness ==
    /\ AfterQuality
    /\ \E r \in final_df :
          /\ r.preco_fechamento = Num(0)
          /\ r.volume_total_diario = Long(1)
          /\ r.dados_validos = FALSE
    /\ \E r \in final_df :
          IsNull(r.preco_fechamento) /\ r.dados_validos = FALSE
    /\ \E r \in final_df :
          /\ r.preco_fechamento = Price(1)
          /\ IsNull(r.volume_total_diario)
          /\ r.dados_validos = FALSE
    /\ \E r \in final_df : r.dados_validos = TRUE

\* The raw rows of key k that carry a volume.
RowsWithVolume(k) ==
    {i \in RowsOfKey(k) : ~IsNull(renamed_df[i].volume_negociado)}

\* C20: the row of a group none of whose raw rows has a volume has a NULL
\* volume_total_diario (not 0); the row of any other group has the sum of
\* the volumes its raw rows have; and a row whose volume_total_diario is NULL
\* has dados_validos false.
C20_NullVolume ==
    AfterQuality =>
        /\ KeysOf(final_df) = InputKeys
        /\ \A r \in final_df :
              /\ IF RowsWithVolume(GroupKey(r)) = {}
                 THEN IsNull(r.volume_total_diario)
                 ELSE r.volume_total_diario
                          = Long(VolumeOfRows(RowsWithVolume(GroupKey(r))))
              /\ IsNull(r.volume_total_diario) => r.dados_validos = FALSE

\* A group whose raw row has no volume, which closed above 0, beside a
\* group with a volume: the first is invalid with a NULL total, the second
\* is valid.
C20_Witness ==
    /\ AfterQuality
    /\ \E r \in final_df :
          /\ RowsWithVolume(GroupKey(r)) = {}
          /\ IsNull(r.volume_total_diario)
          /\ r.preco_fechamento = Price(2)
          /\ r.dados_validos = FALSE
    /\ \E r \in final_df :
          /\ r.volume_total_diario = Long(1)
          /\ r.dados_validos = TRUE
    /\ Len(renamed_df) = 2

\* C23: where the close of the row before is 0, variacao_percentual_diaria
\* follows a policy the computation itself decides: its own condition keeps
\* the zero out of the divisor of the engine's division, so that what a
\* division by zero does is not left to the engine; nothing is raised and
\* the run goes on; and the value is NULL (no infinity, no NaN, no number).
C23_ZeroPreviousClose ==
    AfterMetrics =>
        /\ AllEnriched
        /\ \A r \in metrics_df :
              (Pos(r) > 0 /\ PrevClose(r) = Num(0))
              => /\ ~PctWhen(PrevClose(r))
                 /\ IsNull(r.variacao_percentual_diaria)

\* The columns of the aggregated rows.
AggregatedFields ==
    {"ticker", "data", "volume_total_diario", "preco_medio_fechamento",
     "contagem_registros", "preco_abertura", "preco_maximo", "preco_minimo",
     "preco_fechamento", "dividendos", "ticker_completo"}

\* The rows D are the aggregated rows, each once, with more columns.
OnlyAddsFields(D) ==
    /\ Cardinality(D) = Cardinality(agg_df)
    /\ \A r \in D :
          /\ AggregatedFields \subseteq DOMAIN r
          /\ AggregatedFields # DOMAIN r
          /\ [c \in AggregatedFields |-> r[c]] \in agg_df
    /\ \A g \in agg_df :
          /\ DOMAIN g = AggregatedFields
          /\ Cardinality({r \in D : GroupKey(r) = GroupKey(g)}) = 1

\* C24: every aggregated row has exactly one enriched row, and
\* calculate_date_based_metrics, add_partition_columns and add_quality_columns
\* add columns only: no row more, no row less, and ticker, data and every
\* aggregated column of every row as they were.
C24_StagesOnlyAddFields ==
    /\ AfterMetrics => OnlyAddsFields(metrics_df)
    /\ pc \in {"quality", "write", "catalog", "stats"}
           => OnlyAddsFields(partitioned_df)
    /\ AfterQuality => OnlyAddsFields(final_df)

\* Three rows of one ticker and one of the other, after the three stages,
\* with the columns of all three.
C24_Witness ==
    /\ AfterQuality
    /\ Cardinality(agg_df) = 4
    /\ Cardinality({r.ticker : r \in final_df}) = 2
    /\ \A r \in final_df :
          {"media_movel_7d", "data_particao", "dados_validos"}
              \subseteq DOMAIN r

\* C30: variacao_percentual_diaria is 0.0 wherever the close of the row
\* before is NULL, at the first row of a ticker and after a row without
\* close; it is NULL where the row before has a close and the row has none.
C30_PctChangeNulls ==
    AfterMetrics =>
        /\ AllEnriched
        /\ \A r \in metrics_df :
              /\ (Pos(r) = 0 \/ IsNull(PrevClose(r)))
                 => r.variacao_percentual_diaria = Num(0)
              /\ (Pos(r) > 0 /\ ~IsNull(PrevClose(r))
                    /\ IsNull(r.preco_fechamento))
                 => IsNull(r.variacao_percentual_diaria)

\* A ticker whose first row has no close (0.0), whose second row has one
\* (0.0, after a row without close) and whose third row has none (NULL).
C30_Witness ==
    /\ AfterMetrics
    /\ \E r0, r1, r2 \in metrics_df :
          /\ r0.ticker = r1.ticker /\ r1.ticker = r2.ticker
          /\ Pos(r0) = 0 /\ Pos(r1) = 1 /\ Pos(r2) = 2
          /\ IsNull(r0.preco_fechamento)
          /\ r0.variacao_percentual_diaria = Num(0)
          /\ ~IsNull(r1.preco_fechamento)
          /\ r1.variacao_percentual_diaria = Num(0)
          /\ IsNull(r2.preco_fechamento)
          /\ IsNull(r2.variacao_percentual_diaria)

-----------------------------------------------------------------------------
(* Properties of rename_columns *)

\* rename_columns has returned.
AfterRename == pc = "aggregate"

\* The source names of the table.
SourceNames == {ColumnMapping[k][1] : k \in DOMAIN ColumnMapping}

\* The canonical name the table gives to a source name.
CanonicalOf(name) ==
    ColumnMapping[CHOOSE k \in DOMAIN ColumnMapping :
                      ColumnMapping[k][1] = name][2]

\* C18: after rename_columns the frame has as many columns and the same rows;
\* a column whose name was a source name of the table bears its canonical
\* name, and every other column bears the name it had.
C18_RenameFrame ==
    AfterRename =>
        /\ Len(renamed_df.columns) = Len(raw_df.columns)
        /\ renamed_df.rows = raw_df.rows
        /\ \A j \in DOMAIN raw_df.columns :
              renamed_df.columns[j] =
                  IF raw_df.columns[j] \in SourceNames
                  THEN CanonicalOf(raw_df.columns[j])
                  ELSE raw_df.columns[j]

\* A frame with a source name beside a name that is not one (it differs
\* from a source name in its case, or is the canonical name itself): the
\* first was renamed, the second was not.
C18_Witness ==
    /\ AfterRename
    /\ \E i, j \in DOMAIN raw_df.columns :
          /\ raw_df.columns[i] = "Data"
          /\ renamed_df.columns[i] = "data"
          /\ raw_df.columns[j] \in {"fechamento", "preco_fechamento"}
          /\ renamed_df.columns[j] = raw_df.columns[j]
    /\ Len(renamed_df.rows) = 1

\* The names of the columns of a frame.
NamesOf(df) == {df.columns[j] : j \in DOMAIN df.columns}

\* C19: in whatever order the entries of the table are applied, the names of
\* the resulting frame are those the order of the table gives; no target
\* name of the table is a source name, and at every moment a column bears
\* the name it came with or the canonical name of that name (no column is
\* renamed twice).
C19_RenameOrderIndependent ==
    /\ \A k, l \in DOMAIN ColumnMapping : ColumnMapping[k][2] # ColumnMapping[l][1]
    /\ pc = "rename" =>
           \A j \in DOMAIN raw_df.columns :
               \/ renamed_df.columns[j] = raw_df.columns[j]
               \/ /\ raw_df.columns[j] \in SourceNames
                  /\ renamed_df.columns[j] = CanonicalOf(raw_df.columns[j])
    /\ AfterRename => NamesOf(renamed_df) = NamesOf(RenameFrame(raw_df))

\* The loop has visited every entry but the first of the table, whose
\* source name is still to be renamed, after the sixth was applied.
C19_Witness ==
    /\ pc = "rename"
    /\ todo = {1}
    /\ NamesOf(raw_df) = {"Fechamento", "Data"}
    /\ NamesOf(renamed_df) = {"Fechamento", "data"}

-----------------------------------------------------------------------------
(* Properties of the written dataset *)

\* write_to_refined has returned in this run.
WriteSucceeded ==
    \/ pc \in {"catalog", "stats"}
    \/ pc \in {"commit", "done"} /\ outcome = "success"

\* The rows a reader of OUTPUT_PATH gets for key k: one per object.
DestObjectsOf(k) == {o \in dest : GroupKey(o.row) = k}

\* C10: after a run whose write succeeded the destination holds exactly one
\* row per (ticker, date) of the run's output and no other row, whatever
\* became of the catalog registration.
C10_OneRowPerKeyInDest ==
    WriteSucceeded =>
        /\ \A r \in final_df : Cardinality(DestObjectsOf(GroupKey(r))) = 1
        /\ \A o \in dest : \E r \in final_df : GroupKey(r) = GroupKey(o.row)

\* main() has reported success in this run.
RunSucceeded == outcome = "success"

\* The rows a reader of OUTPUT_PATH gets, without their multiplicity.
DestRows == {o.row : o \in dest}

\* The objects under OUTPUT_PATH that carry row r.
DestObjectsWith(r) == {o \in dest : o.row = r}

\* C11: after every successful run, first or later, the dataset under
\* OUTPUT_PATH is exactly the run's output: every row of final_df once, and
\* nothing else (no row of an earlier run, nothing appended).
C11_DestIsRunOutput ==
    RunSucceeded =>
        /\ \A r \in final_df : Cardinality(DestObjectsWith(r)) = 1
        /\ \A o \in dest : o.row \in final_df

-----------------------------------------------------------------------------
(* Properties of a run repeated on the same input *)

\* This run and the run before it, on the same raw bucket, both succeeded.
RerunSucceeded == outcome = "success" /\ last_run.outcome = "success"

\* The representative-value columns of the aggregation.
RepresentativeFields == {"preco_abertura", "preco_fechamento", "ticker_completo"}

\* Row r without the columns F.
Without(r, F) == [c \in DOMAIN r \ F |-> r[c]]

\* The rows under OUTPUT_PATH in the objects D, without the columns F.
RowsWithout(D, F) == {Without(o.row, F) : o \in D}

\* The number of objects of D whose row, without the columns F, is r.
Copies(D, F, r) == Cardinality({o \in D : Without(o.row, F) = r})

\* C12: two runs on the same input leave the same content under
\* OUTPUT_PATH in every column but preco_abertura, preco_fechamento and
\* ticker_completo: the same rows, each as many times.
C12_IdempotentAsStated ==
    RerunSucceeded =>
        /\ RowsWithout(dest, RepresentativeFields)
               = RowsWithout(last_run.dest, RepresentativeFields)
        /\ \A r \in RowsWithout(dest, RepresentativeFields) :
               Copies(dest, RepresentativeFields, r)
                   = Copies(last_run.dest, RepresentativeFields, r)

\* C13: a run ends as a success, with all of its output under OUTPUT_PATH,
\* or as a failure that main raises; after a failure OUTPUT_PATH holds what
\* it held before the run or the whole output of the run, never a part.
C13_AllOrNothing ==
    /\ pc = "done" => outcome \in {"success", "failed"}
    /\ outcome = "success" => final_df \subseteq DestRows
    /\ outcome = "failed" => dest = last_run.dest \/ DestRows = final_df

\* The aggregated and window columns, with the key.
TickerFields ==
    {"ticker", "data", "volume_total_diario", "preco_medio_fechamento",
     "contagem_registros", "preco_abertura", "preco_maximo", "preco_minimo",
     "preco_fechamento", "media_movel_7d", "variacao_percentual_diaria",
     "maxima_periodo", "minima_periodo", "dados_validos"}

\* The rows of ticker t under OUTPUT_PATH in the objects D, in the columns F.
TickerOutput(D, t, F) ==
    {[c \in F |-> o.row[c]] : o \in {x \in D : x.row.ticker = t}}

\* C21: when two successful runs read the same raw rows of a ticker, and
\* other rows of other tickers, the rows of that ticker are the same in both
\* outputs, in every aggregated and window column.
C21_TickerIndependence ==
    RerunSucceeded =>
        \A t \in Tickers :
            TickerRows(raw_df, t) = TickerRows(last_run.input, t)
            => TickerOutput(dest, t, TickerFields)
                   = TickerOutput(last_run.dest, t, TickerFields)

-----------------------------------------------------------------------------
(* Properties of main() *)

\* A step of main(): every one takes main to another position.  The other
\* steps are those of an operator's cleanup, which goes on beside the run.
MainStep == pc' # pc

\* The stages of main() before write_to_refined.
StagesBeforeWrite ==
    {"read", "rename", "aggregate", "metrics", "partition", "quality"}

\* C14: no step of a stage before write_to_refined, and no step that handles
\* a failure (the except clause, job.commit()), changes what OUTPUT_PATH
\* holds or the catalog: a run that fails before the write leaves both as
\* they were.
C14_NoEffectBeforeWrite ==
    [][(MainStep /\ pc \in StagesBeforeWrite \cup {"except", "commit"})
           => (dest' = dest /\ catalog' = catalog)]_vars

\* A later run that failed in calculate_aggregations, on a non-empty input,
\* while OUTPUT_PATH and the catalog hold what an earlier run left.
C14_Witness ==
    /\ outcome = "failed"
    /\ clock > 1
    /\ Len(renamed_df) > 0
    /\ agg_df = {}
    /\ dest # {}
    /\ \A o \in dest : o.row.data_processamento < WriteTime(clock)
    /\ catalog

\* C15: whatever happens in register_in_catalog, main goes on to
\* create_summary_statistics with no failure recorded, and a run whose
\* create_summary_statistics returns reports success.
C15_CatalogFailureSwallowed ==
    [][MainStep =>
           /\ (pc = "catalog") => (pc' = "stats" /\ outcome' = outcome)
           /\ (pc = "stats" /\ pc' = "commit") => (outcome' = "success")]_vars

\* A first run that ended as a success with its rows under OUTPUT_PATH
\* although the sink raised before it wrote an object: no table was
\* registered.
C15_Witness ==
    /\ pc = "done"
    /\ outcome = "success"
    /\ clock = 1
    /\ ~catalog
    /\ final_df # {}
    /\ dest = Objects("spark", final_df)

\* C16: read_raw_data returns the object at INPUT_PATH when it can be read;
\* when it cannot, it returns the content of raw/ and the run goes on; the
\* run fails at the read only when raw/ cannot be read either.
C16_ReadFallback ==
    [][(MainStep /\ pc = "read") =>
           IF store.input_ok
           THEN raw_df' = store.input /\ pc' = "rename"
           ELSE IF store.dir_ok
                THEN raw_df' = store.dir /\ pc' = "rename"
                ELSE pc' = "except"]_vars

\* A run that could not read INPUT_PATH, took the rows of raw/ and ended as
\* a success.
C16_Witness ==
    /\ ~store.input_ok
    /\ Len(raw_df) > 0
    /\ raw_df = store.dir
    /\ outcome = "success"
    /\ final_df # {}

\* The number the design gives to the stage that runs at a position of
\* main(): 1 Normalizer, 2 Aggregator, 3 Window Metrics, 4 Partition Assigner
\* & Writer, 5 Quality Annotator.
StageNumber ==
    [rename |-> 1, aggregate |-> 2, metrics |-> 3, partition |-> 4,
     write |-> 4, quality |-> 5]

\* C17 as stated: the stages run in the order 1, 2, 3, 4, 5: main never goes
\* from a stage to a stage of a lower number (stage 4, which writes, is over
\* when stage 5 begins).
C17_StageOrderAsStated ==
    [][(pc \in DOMAIN StageNumber /\ pc' \in DOMAIN StageNumber)
           => (StageNumber[pc'] >= StageNumber[pc])]_vars

\* The stage that follows a stage in main().
StageAfter ==
    [rename |-> "aggregate", aggregate |-> "metrics", metrics |-> "partition",
     partition |-> "quality", quality |-> "write"]

\* C17 amended: the order is Normalizer, Aggregator, Window Metrics,
\* Partition Assigner, Quality Annotator, Writer.  A stage is followed by the
\* next one (or by the failure of the run), never by itself or an earlier
\* one; its output has all the rows (keys) of the output of the stage before
\* it; and what is written is the whole output of the Quality Annotator.
C17_StageOrderAmended ==
    [][MainStep =>
           /\ (pc \in DOMAIN StageAfter)
                  => (pc' \in {StageAfter[pc], "except"})
           /\ (pc = "rename") => (Len(renamed_df') = Len(raw_df))
           /\ (pc = "aggregate" /\ pc' = "metrics")
                  => (KeysOf(agg_df')
                         = {GroupKey(renamed_df[i]) : i \in 1..Len(renamed_df)})
           /\ (pc = "metrics") => (KeysOf(metrics_df') = KeysOf(agg_df))
           /\ (pc = "partition")
                  => (KeysOf(partitioned_df') = KeysOf(metrics_df))
           /\ (pc = "quality") => (KeysOf(final_df') = KeysOf(partitioned_df))
           /\ (pc = "write" /\ pc' = "catalog")
                  => ({o.row : o \in dest'} = final_df)]_vars

\* A run past its write: two groups went through every stage, and the rows
\* written carry the columns of the Quality Annotator.
C17_Witness ==
    /\ pc = "catalog"
    /\ Cardinality(final_df) = 2
    /\ KeysOf(final_df) = {GroupKey(renamed_df[i]) : i \in 1..Len(renamed_df)}
    /\ DestRows = final_df
    /\ \A o \in dest : o.row.dados_validos \in BOOLEAN

\* C28: a run of main ends by job.commit() and in no other way, and
\* job.commit() is its last step: nothing follows it but the end of the run.
\* When a stage raised, the except clause records the failure, job.commit()
\* follows, and the run ends as failed: the success message is not printed
\* before the failure and not after it.
C28_CommitOnceLast ==
    [][MainStep =>
           /\ (pc' = "done") => (pc = "commit")
           /\ (pc = "commit")
                  => (/\ pc' = "done"
                      /\ outcome' = outcome
                      /\ outcome \in {"success", "failed"}
                      /\ dest' = dest
                      /\ catalog' = catalog)
           /\ (pc = "done") => (pc' = "read" /\ outcome' = "none")
           /\ (pc' = "except") => (outcome' = "none")
           /\ (pc = "except") => (pc' = "commit" /\ outcome' = "failed")]_vars

\* A first run that registered its table, failed in
\* create_summary_statistics and is over, after the commit.
C28_Witness ==
    /\ pc = "done"
    /\ clock = 1
    /\ outcome = "failed"
    /\ catalog
    /\ final_df # {}

\* C29: register_in_catalog begins only when write_to_refined has returned,
\* with the dataset written; a write that raised is followed by the except
\* clause; no step of main outside register_in_catalog changes the catalog,
\* and no object of the sink appears outside it.  Success is reported only
\* by the step that ends create_summary_statistics, which begins only when
\* register_in_catalog is over.
C29_RegisterAfterWrite ==
    [][/\ MainStep =>
              /\ (pc' = "catalog")
                     => (pc = "write" /\ dest' = Objects("spark", final_df))
              /\ (pc = "write" /\ dest' # Objects("spark", final_df))
                     => (pc' = "except")
              /\ (catalog' # catalog) => (pc = "catalog")
              /\ (pc' = "stats") => (pc = "catalog")
       /\ (\E o \in dest' \ dest : o.writer = "sink") => (pc = "catalog")
       /\ (outcome' = "success" /\ outcome # "success")
              => (pc = "stats" /\ pc' = "commit")]_vars

\* A first run whose write raised after one of its two objects was written:
\* it is over as failed, with no table registered and no object of the sink.
C29_Witness ==
    /\ pc = "done"
    /\ clock = 1
    /\ outcome = "failed"
    /\ ~catalog
    /\ Cardinality(final_df) = 2
    /\ Cardinality(dest) = 1
    /\ \A o \in dest : o.writer = "spark"

-----------------------------------------------------------------------------
(* Properties of upload_to_s3 *)

\* C26: once the loop of upload_directory is over, upload_file was called
\* exactly once for every *.parquet file of the local directory, whatever
\* calls failed, and success_count + fail_count is the number of these
\* calls; and once main is over, it has returned, 1 exactly when
\* fail_count > 0.
C26_UploadEveryFile ==
    /\ upload_pc # "loop" =>
           /\ \A f \in Rglob(DOMAIN attempts) : attempts[f] = 1
           /\ \A f \in DOMAIN attempts \ Rglob(DOMAIN attempts) :
                  attempts[f] = 0
           /\ success_count + fail_count
                  = Cardinality(Rglob(DOMAIN attempts))
    /\ upload_pc \notin {"loop", "verify", "list"} =>
           /\ upload_pc \in {"return 0", "return 1"}
           /\ upload_pc = "return 1" <=> fail_count > 0

-----------------------------------------------------------------------------
(* Properties of lambda_handler *)

\* The key a key of S3 events stands for.
PlainKey(k) ==
    IF k = <<"raw", "%2F", "b", "+", "c", ".parquet">>
    THEN <<"raw", "/", "b", " ", "c", ".parquet">>
    ELSE k

\* The record is the creation of a .parquet object under raw/.
IsEligible(record) ==
    /\ record.eventName # <<>>
    /\ record.eventName[1] = "ObjectCreated"
    /\ LET k == PlainKey(record.key)
       IN  k[1] = "raw" /\ k[2] = "/" /\ k[Len(k)] = ".parquet"

\* The records lambda_handler has handled.
Handled == SubSeq(event, 1, Len(event) - Len(records))

\* C25: the runs lambda_handler has asked for are those of the records it
\* has handled whose event is a creation and whose decoded key is a .parquet
\* under raw/, one each, in their order, with the record's bucket and decoded
\* key; and lambda_handler raises only when the start of a run failed, never
\* on a record it skips.
C25_StartPerEligibleRecord ==
    LET expected == SelectSeq(Handled, IsEligible)
    IN  /\ Len(requests) = Len(expected)
        /\ \A i \in 1..Len(expected) :
              /\ requests[i].arguments.input_bucket = expected[i].bucket
              /\ requests[i].arguments.input_key = PlainKey(expected[i].key)
        /\ handler = "raised"
           => /\ IsEligible(Handled[Len(Handled)])
              /\ requests[Len(requests)].status \in StartFailures

\* An invocation that returned: it started a run for its first record, whose
\* key is encoded, and skipped its second, the creation of a .csv.
C25_Witness ==
    /\ handler = "200"
    /\ Len(event) = 2
    /\ event[1].key # PlainKey(event[1].key)
    /\ IsEligible(event[1])
    /\ event[2].eventName[1] = "ObjectCreated"
    /\ ~IsEligible(event[2])
    /\ Len(requests) = 1
    /\ requests[1].status = "STARTED"

\* C27: when the start of a run meets the limit of concurrent runs,
\* start_glue_job returns ALREADY_RUNNING: lambda_handler goes on with the
\* next record, no run is started, and the record is not handled again.  When
\* the start fails otherwise, lambda_handler raises: it handles no further
\* record and makes no further request, and the step leaves the runs started
\* before as they are.
\* lambda_handler returns 200 when it has handled its last record without
\* raising.
C27_StartFailures ==
    [][/\ (Len(requests') > Len(requests))
              => LET q == requests'[Len(requests')]
                 IN  /\ records' = Tail(records)
                     /\ q.status = "ALREADY_RUNNING"
                        => (job_runs' = job_runs /\ handler' = "running")
                     /\ q.status \in StartFailures
                        => (job_runs' = job_runs /\ handler' = "raised")
                     /\ q.status = "STARTED"
                        => (/\ job_runs' = Append(job_runs,
                                                  NewRun(q.arguments))
                            /\ handler' = "running")
       /\ (handler = "raised")
              => (/\ handler' = "raised"
                  /\ records' = records
                  /\ requests' = requests)
       /\ (handler' = "200" /\ handler # "200")
              => (handler = "running" /\ records = <<>>)]_vars

\* An invocation that returned 200 although its first record met the limit
\* of concurrent runs; its second record started a run.
C27_Witness ==
    /\ handler = "200"
    /\ Len(requests) = 2
    /\ requests[1].status = "ALREADY_RUNNING"
    /\ requests[2].status = "STARTED"
    /\ requests[1].arguments # requests[2].arguments
    /\ \A n \in DOMAIN job_runs :
          job_runs[n].arguments # requests[1].arguments

-----------------------------------------------------------------------------
(* Specifications *)

\* A run of the whole job, and the runs after it.
Init ==
    /\ pc = "read"
    /\ store \in Stores(MaxRunRows)
    /\ raw_df = <<>>
    /\ renamed_df = <<>>
    /\ agg_df = {}
    /\ metrics_df = {}
    /\ partitioned_df = {}
    /\ final_df = {}
    /\ dest = {}
    /\ catalog = FALSE
    /\ outcome = "none"
    /\ clock = 1
    /\ todo = DOMAIN ColumnMapping
    /\ last_run = NoRun
    /\ NoUpload
    /\ NoTrigger

Next ==
    \/ ReadRawData
    \/ RenameColumnsStep
    \/ CalculateAggregationsStep
    \/ CalculateDateBasedMetricsStep
    \/ AddPartitionColumnsStep
    \/ AddQualityColumnsStep
    \/ WriteToRefined
    \/ RegisterInCatalog
    \/ CreateSummaryStatistics
    \/ ExceptHandler
    \/ JobCommit
    \/ StartRun
    \/ CleanupResources

Spec == Init /\ [][Next]_vars

\* A run of the whole job, and the same job run again on the same input.
NextRerun ==
    \/ ReadRawData
    \/ RenameColumnsStep
    \/ CalculateAggregationsStep
    \/ CalculateDateBasedMetricsStep
    \/ AddPartitionColumnsStep
    \/ AddQualityColumnsStep
    \/ WriteToRefined
    \/ RegisterInCatalog
    \/ CreateSummaryStatistics
    \/ ExceptHandler
    \/ JobCommit
    \/ Rerun
    \/ CleanupResources

SpecRerun == Init /\ [][NextRerun]_vars

\* A run of the whole job, and a run on an input that differs from it in
\* the rows of other tickers.
NextTickers ==
    \/ ReadRawData
    \/ RenameColumnsStep
    \/ CalculateAggregationsStep
    \/ CalculateDateBasedMetricsStep
    \/ AddPartitionColumnsStep
    \/ AddQualityColumnsStep
    \/ WriteToRefined
    \/ RegisterInCatalog
    \/ CreateSummaryStatistics
    \/ ExceptHandler
    \/ JobCommit
    \/ RunOtherTickers
    \/ CleanupResources

SpecTickers == Init /\ [][NextTickers]_vars

\* rename_columns and calculate_aggregations applied to every raw input.
InitAgg ==
    /\ pc = "rename"
    /\ store = NoStore
    /\ raw_df \in AggInputs(MaxRawRows)
    /\ renamed_df = <<>>
    /\ agg_df = {}
    /\ metrics_df = {}
    /\ partitioned_df = {}
    /\ final_df = {}
    /\ dest = {}
    /\ catalog = FALSE
    /\ outcome = "none"
    /\ clock = 1
    /\ todo = DOMAIN ColumnMapping
    /\ last_run = NoRun
    /\ NoUpload
    /\ NoTrigger

NextAgg == RenameColumnsStep \/ CalculateAggregationsStep

SpecAgg == InitAgg /\ [][NextAgg]_vars

\* rename_columns applied to every frame, at once and entry by entry.
InitRename ==
    /\ pc = "rename"
    /\ store = NoStore
    /\ raw_df \in Frames(MaxFields)
    /\ renamed_df = raw_df
    /\ agg_df = {}
    /\ metrics_df = {}
    /\ partitioned_df = {}
    /\ final_df = {}
    /\ dest = {}
    /\ catalog = FALSE
    /\ outcome = "none"
    /\ clock = 1
    /\ todo = DOMAIN ColumnMapping
    /\ last_run = NoRun
    /\ NoUpload
    /\ NoTrigger

NextRename == RenameFrameStep \/ RenameEntryStep

SpecRename == InitRename /\ [][NextRename]_vars

\* The stages after the aggregation applied to every aggregated input.
InitMetrics ==
    /\ pc = "metrics"
    /\ store = NoStore
    /\ raw_df = <<>>
    /\ renamed_df = <<>>
    /\ \/ agg_df \in WindowInputs(MaxDate)
       \/ agg_df \in NullInputs(NullSlots)
       \/ agg_df \in RangeInputs(RangeSlots)
    /\ metrics_df = {}
    /\ partitioned_df = {}
    /\ final_df = {}
    /\ dest = {}
    /\ catalog = FALSE
    /\ outcome = "none"
    /\ clock = 1
    /\ todo = {}
    /\ last_run = NoRun
    /\ NoUpload
    /\ NoTrigger

NextMetrics ==
    \/ CalculateDateBasedMetricsStep
    \/ AddPartitionColumnsStep
    \/ AddQualityColumnsStep

SpecMetrics == InitMetrics /\ [][NextMetrics]_vars

\* upload_to_s3.main on every local directory.
InitUpload ==
    /\ \E dir \in LocalDirs(MaxFiles) :
          /\ pending = Rglob(dir)
          /\ attempts = [f \in dir |-> 0]
    /\ uploaded = {}
    /\ success_count = 0
    /\ fail_count = 0
    /\ upload_pc = "loop"
    /\ NoJob
    /\ NoTrigger

NextUpload ==
    \/ UploadDirectoryStep
    \/ UploadDirectoryReturn
    \/ VerifyUpload
    \/ UploadMainReturn

SpecUpload == InitUpload /\ [][NextUpload]_vars

\* An invocation of lambda_handler on every event, with the starts of other
\* invocations going on beside it.
InitTrigger ==
    /\ event \in Events(MaxRecords)
    /\ records = event
    /\ handler = "running"
    /\ requests = <<>>
    /\ job_runs = <<>>
    /\ NoJob
    /\ NoUpload

NextTrigger ==
    \/ LambdaHandlerRecord
    \/ LambdaHandlerReturn
    \/ ConcurrentInvocation

SpecTrigger == InitTrigger /\ [][NextTrigger]_vars

====
